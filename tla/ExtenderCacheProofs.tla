------------------------ MODULE ExtenderCacheProofs -------------------------
(***************************************************************************)
(* Theorems about ExtenderCache, for every instance that meets its         *)
(* assumptions.  Where the environment is orderly (Faults is empty) and a  *)
(* request counts what it has placed (PlacesCounted), the safety           *)
(* properties follow from ExtenderInv: each claim is in a stage of its     *)
(* life, and each node cache mirrors the stages of the claims that have    *)
(* storage on its node.                                                    *)
(***************************************************************************)
EXTENDS ExtenderCache, FunctionTheorems, FiniteSetTheorems, WellFoundedInduction, TLAPS

NodeCaches ==
    [known : BOOLEAN, vgs : SUBSET VGs, cap : [VGs -> Nat], req : [VGs -> Int],
     disks : SUBSET Disks, held : SUBSET Disks, localPVs : [Claims -> Volumes \cup {None}],
     records : [Claims -> Places \cup {None}],
     inline : [Pods -> {"none", "recorded", "unrecorded"}]]

\* Every field of the API objects, of the extender's state and of what its
\* informers have delivered has its type; a bound claim has a volume, and a claim
\* is mapped to a pod that mounts it.
TypeOK ==
    /\ pod \in [Pods -> {"absent", "pending", "running", "gone"}]
    /\ podNode \in [Pods -> Nodes \cup {None}]
    /\ claim \in [Claims -> {"absent", "pending", "bound"}]
    /\ selected \in [Claims -> Nodes \cup {None}]
    /\ pv \in [Claims -> Volumes \cup {None}]
    /\ nls \in [Nodes -> Statuses]
    /\ answer \in [Claims -> Answers \cup {None}]
    /\ used \in SUBSET Claims
    /\ batch \in Batches
    /\ cache \in [Nodes -> NodeCaches]
    /\ binding \in [Claims -> Places \cup {None}]
    /\ info \in [Pods -> (SUBSET Claims) \cup {None}]
    /\ pvcPod \in [Claims -> Pods \cup {None}]
    /\ \A c \in Claims : claim[c] = "bound" => pv[c] # None
    /\ \A c \in Claims : pvcPod[c] # None => c \in Mounts(pvcPod[c])
    /\ seenPod \in SUBSET Pods
    /\ seenPV \in [Claims -> Volumes \cup {None}]
    /\ seenNLS \in [Nodes -> Statuses \cup {None}]

----------------------------------------------------------------------------
(* The stages of a claim *)

Fitting(c) == IF Kind[c] = "LVM" THEN VGs ELSE Disks

\* A place on a node is backed by BindingInfo, except that a claim that names
\* its volume group may have none.
Backed(c, n, w) == binding[c] = Unit(c, n, w) \/ (~Asks(c) /\ binding[c] = None)

Absent(c) ==
    /\ claim[c] = "absent"
    /\ pv[c] = None /\ seenPV[c] = None /\ answer[c] = None /\ binding[c] = None

Waiting(c) ==
    /\ claim[c] = "pending"
    /\ pv[c] = None /\ seenPV[c] = None
    /\ binding[c] # None =>
          \E w \in Fitting(c) : /\ binding[c] = Unit(c, selected[c], w)
                                /\ ~Asks(c) => w = VGParam[c]
    /\ answer[c] # None =>
          \E w \in Fitting(c) :
             /\ answer[c] = [target |-> selected[c], unit |-> Unit(c, selected[c], w)]
             /\ Backed(c, selected[c], w)
             /\ ~Asks(c) => w = VGParam[c]

Made(c) ==
    /\ claim[c] = "pending" /\ answer[c] = None
    /\ pv[c] # None /\ pv[c].phase = "pending" /\ pv[c].size = Size[c]
    /\ pv[c].node = selected[c] /\ pv[c].where \in Fitting(c)
    /\ ~Asks(c) => pv[c].where = VGParam[c]
    /\ seenPV[c] = pv[c] /\ Backed(c, pv[c].node, pv[c].where)

Bound(c) ==
    /\ claim[c] = "bound" /\ answer[c] = None
    /\ pv[c] # None /\ pv[c].phase = "bound" /\ pv[c].size >= Size[c]
    /\ pv[c].where \in Fitting(c)
    /\ \/ seenPV[c] = None /\ binding[c] = None
       \/ /\ seenPV[c] # None /\ seenPV[c].node = pv[c].node /\ seenPV[c].where = pv[c].where
          /\ seenPV[c].size >= Size[c]
          /\ seenPV[c].phase = "pending" => seenPV[c].size = Size[c] /\ pv[c].size = Size[c]
          /\ Backed(c, pv[c].node, pv[c].where)

Deleted(c) ==
    /\ claim[c] = "absent" /\ answer[c] = None /\ pv[c] = None
    /\ seenPV[c] # None /\ seenPV[c].phase = "bound" /\ seenPV[c].size >= Size[c]
    /\ seenPV[c].where \in Fitting(c)
    /\ Backed(c, seenPV[c].node, seenPV[c].where)

InStage(c) ==
    \/ Absent(c)
    \/ c \in used /\ (Waiting(c) \/ Made(c) \/ Bound(c) \/ Deleted(c))

----------------------------------------------------------------------------
(* Pods, and the claims of a pod *)

PodInv ==
    /\ \A p \in Pods : pod[p] # "absent" => p \in batch /\ Listed(p)
    /\ \A p \in seenPod : pod[p] # "absent"
    /\ \A c \in Claims : pvcPod[c] # None => pvcPod[c] \in batch

\* The claims of a pod are used and answered together.
TogetherInv ==
    /\ \A p \in batch : Mounts(p) \subseteq used \/ Mounts(p) \cap used = {}
    /\ \A p \in batch : \A c, d \in Mounts(p) :
          claim[c] = "pending" /\ claim[d] = "pending" /\ binding[c] = None => binding[d] = None

----------------------------------------------------------------------------
(* The node caches *)

OnNode(c, n) == seenPV[c] # None /\ seenPV[c].phase = "bound" /\ seenPV[c].node = n

VolumesInv(n) ==
    \A c \in Claims : cache[n].localPVs[c] = IF OnNode(c, n) THEN seenPV[c] ELSE None

RecordsInv(n) ==
    \A c \in Claims :
        /\ cache[n].records[c] # None =>
              /\ c \in used
              /\ cache[n].records[c].node = n
              /\ claim[c] # "absent" => binding[c] = cache[n].records[c]
        /\ binding[c] # None /\ binding[c].node = n =>
              OnNode(c, n) \/ cache[n].records[c] = binding[c]

StatusInv(n) ==
    /\ ~cache[n].known => cache[n] = NewNodeCache
    /\ seenNLS[n] = None => /\ cache[n].vgs = {}
                            /\ \A c \in Claims : cache[n].records[c] = None
                            /\ \A p \in Pods : cache[n].inline[p] = "none"
    /\ seenNLS[n] # None => /\ cache[n].known /\ cache[n].vgs = VGs
                            /\ \A v \in VGs : cache[n].cap[v] <= nls[n].cap[v]
    /\ \A c \in Claims : 
          /\ pv[c] # None /\ pv[c].phase = "bound" /\ pv[c].node = n /\ seenPV[c] # None
                => cache[n].known
          /\ OnNode(c, n) => cache[n].known

InlineInv(n) ==
    \A p \in Pods : cache[n].inline[p] # "none" =>
        /\ cache[n].inline[p] = "recorded" /\ InlineVG[p] # None
        /\ podNode[p] = n /\ pod[p] \in {"running", "gone"} /\ p \in seenPod

HeldInv(n) ==
    /\ \A w \in cache[n].held :
          \E c \in Claims : Kind[c] # "LVM" /\ binding[c] = Unit(c, n, w)
    /\ \A c \in Claims : \A w \in Disks :
          Kind[c] # "LVM" /\ binding[c] = Unit(c, n, w) =>
              /\ w \in cache[n].disks => w \in cache[n].held
              /\ OnNode(c, n) \/ w \in cache[n].held

\* What claim c takes in v on n, told from what the extender has seen and answered.
Taken(n, v, c) ==
    IF OnNode(c, n) THEN IF seenPV[c].where = v THEN seenPV[c].size ELSE 0
    ELSE IF binding[c] = Unit(c, n, v) THEN Size[c] ELSE 0

TakenOn(n, v) == [c \in Claims |-> Taken(n, v, c)]

InlineOn(n, v) == [p \in Pods |-> IF cache[n].inline[p] # "none" /\ InlineVG[p] = v
                                  THEN InlineSize[p] ELSE 0]

LedgerInv(n) ==
    \A v \in VGs : cache[n].req[v] = IF v \in cache[n].vgs
                                     THEN Total(TakenOn(n, v)) + Total(InlineOn(n, v)) ELSE 0

NodeInv(n) == /\ VolumesInv(n) /\ RecordsInv(n) /\ StatusInv(n) /\ InlineInv(n)
              /\ HeldInv(n) /\ LedgerInv(n)

----------------------------------------------------------------------------
(* Storage that is taken *)

\* The place of c is that of its volume, or the one it was promised.
Owns(c, n, w) ==
    IF pv[c] # None THEN pv[c].node = n /\ pv[c].where = w
    ELSE binding[c] # None /\ binding[c].node = n /\ binding[c].where = w

OwnInv == \A c, d \in Claims : \A n, w :
             Kind[c] # "LVM" /\ Kind[d] # "LVM" /\ c # d /\ Owns(c, n, w) => ~Owns(d, n, w)

\* What c was promised in v on n, or has there since before a restart.
Promise(n, v, c) ==
    IF \/ binding[c] = Unit(c, n, v)
       \/ /\ pv[c] # None /\ pv[c].phase = "bound" /\ seenPV[c] = None
          /\ pv[c].node = n /\ pv[c].where = v
    THEN Size[c] ELSE 0

RoomInv ==
    \A n \in Nodes, v \in VGs :
        /\ Room(n, v, 0)
        /\ Total([c \in Claims |-> Promise(n, v, c)]) <= nls[n].cap[v]

\* The inductive invariant.
ExtenderInv ==
    /\ TypeOK
    /\ \A c \in Claims : InStage(c)
    /\ PodInv
    /\ TogetherInv
    /\ \A n \in Nodes : NodeInv(n)
    /\ OwnInv
    /\ RoomInv

(***************************************************************************)
(* What Total does when the function it sums changes.                      *)
(***************************************************************************)

\* A function with a finite domain has finitely many units, so its total is a
\* natural number.
LEMMA TotalType ==
    ASSUME NEW K, IsFiniteSet(K), NEW f \in [K -> 0..MaxSize]
    PROVE  IsFiniteSet(Units(f)) /\ Total(f) \in Nat
<1>1. IsFiniteSet(Sizes)
  BY MaxSizeAssumption, FS_Interval DEF Sizes
<1>2. IsFiniteSet(K \X Sizes)
  BY <1>1, FS_Product
<1>3. Units(f) \in SUBSET (K \X Sizes)
  BY DEF Units
<1>4. IsFiniteSet(Units(f))
  BY <1>2, <1>3, FS_Subset
<1> QED
  BY <1>4, FS_CardinalityType DEF Total

\* If every key's amount goes whole either to g or to h, the totals add up:
\* what an answered request adds to what was taken before.
LEMMA TotalSplit ==
    ASSUME NEW K, IsFiniteSet(K),
           NEW f \in [K -> 0..MaxSize], NEW g \in [K -> 0..MaxSize],
           NEW h \in [K -> 0..MaxSize],
           \A k \in K : \/ g[k] = f[k] /\ h[k] = 0
                        \/ g[k] = 0 /\ h[k] = f[k]
    PROVE  Total(f) = Total(g) + Total(h)
<1>1. Units(f) = Units(g) \cup Units(h)
  BY MaxSizeAssumption DEF Units, Sizes
<1>2. Units(g) \cap Units(h) = {}
  BY MaxSizeAssumption DEF Units, Sizes
<1>3. IsFiniteSet(Units(g)) /\ IsFiniteSet(Units(h))
  BY TotalType
<1>4. Total(g) \in Nat /\ Total(h) \in Nat
  BY TotalType
<1>5. Cardinality(Units(g) \cup Units(h))
        = Cardinality(Units(g)) + Cardinality(Units(h)) - Cardinality(Units(g) \cap Units(h))
  BY <1>3, FS_Union
<1>6. Cardinality(Units(g) \cap Units(h)) = 0
  BY <1>2, FS_EmptySet
<1> QED
  BY <1>1, <1>4, <1>5, <1>6 DEF Total

\* A function that is zero everywhere has total zero.
LEMMA TotalZero ==
    ASSUME NEW K, NEW f \in [K -> 0..MaxSize], \A k \in K : f[k] = 0
    PROVE  Total(f) = 0
<1>1. Units(f) = {}
  BY MaxSizeAssumption DEF Units, Sizes
<1> QED
  BY <1>1, FS_EmptySet DEF Total

\* A function that is zero away from k has total f[k].
LEMMA TotalPoint ==
    ASSUME NEW K, NEW f \in [K -> 0..MaxSize], NEW k \in K,
           \A j \in K : j # k => f[j] = 0
    PROVE  Total(f) = f[k]
<1> DEFINE count == [i \in 1..f[k] |-> <<k, i>>]
<1>1. f[k] \in Nat /\ 1..f[k] \subseteq Sizes
  BY MaxSizeAssumption DEF Sizes
<1>2. \A i \in 1..f[k] : count[i] \in Units(f)
  BY <1>1, MaxSizeAssumption DEF Units, Sizes
<1>3. \A q \in Units(f) : q[1] = k /\ q[2] \in 1..f[k] /\ q = <<k, q[2]>>
  BY MaxSizeAssumption DEF Units, Sizes
<1>4. count \in Bijection(1..f[k], Units(f))
  <2>1. count \in [1..f[k] -> Units(f)]
    BY <1>2
  <2>2. \A a, b \in 1..f[k] : count[a] = count[b] => a = b
    OBVIOUS
  <2>3. \A q \in Units(f) : \E i \in 1..f[k] : count[i] = q
    BY <1>3
  <2> QED
    BY <2>1, <2>2, <2>3, Fun_IsBij
<1>5. ExistsBijection(1..f[k], Units(f))
  BY <1>4 DEF ExistsBijection
<1> QED
  BY <1>1, <1>5, FS_CountingElements DEF Total

\* Changing one key's amount changes the total by the difference: one volume
\* seen, expanded or deleted, one inline volume charged or given back.
LEMMA TotalUpdate ==
    ASSUME NEW K, IsFiniteSet(K),
           NEW f \in [K -> 0..MaxSize], NEW g \in [K -> 0..MaxSize], NEW k \in K,
           \A j \in K : j # k => g[j] = f[j]
    PROVE  Total(g) = Total(f) - f[k] + g[k]
<1> DEFINE rest == [j \in K |-> IF j = k THEN 0 ELSE f[j]]
           old  == [j \in K |-> IF j = k THEN f[j] ELSE 0]
           new  == [j \in K |-> IF j = k THEN g[j] ELSE 0]
<1>1. rest \in [K -> 0..MaxSize] /\ old \in [K -> 0..MaxSize] /\ new \in [K -> 0..MaxSize]
  BY MaxSizeAssumption
<1>2. Total(f) = Total(rest) + Total(old)
  <2>1. \A j \in K : \/ rest[j] = f[j] /\ old[j] = 0
                     \/ rest[j] = 0 /\ old[j] = f[j]
    OBVIOUS
  <2> HIDE DEF rest, old
  <2> QED
    BY <1>1, <2>1, TotalSplit
<1>3. Total(g) = Total(rest) + Total(new)
  <2>1. \A j \in K : \/ rest[j] = g[j] /\ new[j] = 0
                     \/ rest[j] = 0 /\ new[j] = g[j]
    OBVIOUS
  <2> HIDE DEF rest, new
  <2> QED
    BY <1>1, <2>1, TotalSplit
<1>4. Total(old) = f[k] /\ Total(new) = g[k]
  <2>1. \A j \in K : j # k => old[j] = 0 /\ new[j] = 0
    OBVIOUS
  <2>2. old[k] = f[k] /\ new[k] = g[k]
    OBVIOUS
  <2> HIDE DEF old, new
  <2> QED
    BY <1>1, <2>1, <2>2, TotalPoint
<1>5. Total(rest) \in Nat /\ f[k] \in Nat /\ g[k] \in Nat
  <2> HIDE DEF rest
  <2> QED
    BY <1>1, TotalType, MaxSizeAssumption
<1> QED
  BY <1>2, <1>3, <1>4, <1>5

\* A smaller function has a smaller total.
LEMMA TotalMonotone ==
    ASSUME NEW K, IsFiniteSet(K), NEW f \in [K -> 0..MaxSize], NEW g \in [K -> 0..MaxSize],
           \A k \in K : f[k] <= g[k]
    PROVE  Total(f) <= Total(g)
<1>1. Units(f) \subseteq Units(g)
  BY MaxSizeAssumption DEF Units, Sizes
<1>2. IsFiniteSet(Units(g))
  BY TotalType
<1> QED
  BY <1>1, <1>2, FS_Subset DEF Total

----------------------------------------------------------------------------
(* Induction, and sorted slices *)

\* Induction over the naturals, for a set instead of a predicate.
LEMMA NatInductionSet ==
  ASSUME NEW T, 0 \in T, \A j \in Nat : j \in T => j + 1 \in T
  PROVE  Nat \subseteq T
<1> DEFINE R == OpToRel(<, Nat)
           Bad == Nat \ T
<1> SUFFICES ASSUME Bad # {} PROVE FALSE
  OBVIOUS
<1>1. IsWellFoundedOn(R, Nat)
  BY NatLessThanWellFounded
<1>2. \A x, y \in Nat : y < x => <<y, x>> \in R
  BY DEF OpToRel
<1> HIDE DEF R
<1>3. PICK x \in Bad : \A y \in Bad : ~(<<y, x>> \in R)
  <2>1. Bad \subseteq Nat
    OBVIOUS
  <2> HIDE DEF Bad
  <2> QED
    BY <1>1, <2>1, WFMin
<1>4. x \in Nat /\ x # 0
  OBVIOUS
<1>5. x - 1 \in Nat /\ x - 1 < x /\ (x - 1) + 1 = x
  BY <1>4
<1>6. x - 1 \in T
  BY <1>2, <1>3, <1>4, <1>5
<1> QED
  BY <1>5, <1>6

\* A sorted slice of a finite set has every element.
LEMMA OrderIsOnto ==
  ASSUME NEW S, IsFiniteSet(S), NEW key, NEW s \in Orders(S, key), NEW x \in S
  PROVE  \E i \in 1..Cardinality(S) : s[i] = x
<1> DEFINE K == Cardinality(S)
<1>1. K \in Nat /\ IsFiniteSet(1..K) /\ Cardinality(1..K) = K
  BY FS_CardinalityType, FS_Interval
<1>2. s \in Injection(1..K, S)
  BY DEF Orders, Injection, IsInjective
<1>3. s \in Surjection(1..K, S)
  BY <1>1, <1>2, FS_Injection
<1> QED
  BY <1>3 DEF Surjection

----------------------------------------------------------------------------
(* How a request's claims are placed and charged *)

\* A claim of the pod has a position in its list, and no other claim has it.
LEMMA PositionOfClaim ==
    ASSUME NEW ps \in Seq(Claims), NEW c \in Range(ps)
    PROVE  Position(ps, c) \in 1..Len(ps) /\ ps[Position(ps, c)] = c
<1>1. \E i \in DOMAIN ps : ps[i] = c
  BY DEF Range
<1>2. Position(ps, c) \in DOMAIN ps /\ ps[Position(ps, c)] = c
  BY <1>1 DEF Position
<1> QED
  BY <1>2

\* Every claim has a turn, and no two LVM claims have the same one.
LEMMA TurnsDiffer ==
    ASSUME NEW ps \in Seq(Claims), NEW S \in SUBSET Range(ps), S \subseteq Claims
    PROVE  /\ DivideLVMPVCs(ps, S) \in [S -> Nat]
           /\ \A c, d \in OfKind(S, "LVM") :
                 DivideLVMPVCs(ps, S)[c] = DivideLVMPVCs(ps, S)[d] => c = d
<1>1. \A c \in S : Position(ps, c) \in 1..Len(ps) /\ ps[Position(ps, c)] = c
  BY PositionOfClaim
<1>2. Len(ps) \in Nat
  OBVIOUS
<1>3. DivideLVMPVCs(ps, S) \in [S -> Nat]
  BY <1>1, <1>2, KindAssumption DEF DivideLVMPVCs
<1>4. ASSUME NEW c \in OfKind(S, "LVM"), NEW d \in OfKind(S, "LVM"),
             DivideLVMPVCs(ps, S)[c] = DivideLVMPVCs(ps, S)[d]
      PROVE  c = d
  <2>1. Position(ps, c) = Position(ps, d)
    BY <1>1, <1>2, <1>4 DEF DivideLVMPVCs, OfKind
  <2> QED
    BY <1>1, <2>1 DEF OfKind
<1> QED
  BY <1>3, <1>4

\* The recursive definition of Assuming has a solution, so its equations hold.
LEMMA AssumingRecursion ==
    ASSUME NEW nc, NEW units, Len(units) \in Nat
    PROVE  /\ Assuming(nc, units)[0] = [nc |-> nc, err |-> FALSE]
           /\ \A i \in 1..Len(units) :
                 Assuming(nc, units)[i] = AssumeUnit(units[i], Assuming(nc, units)[i - 1])
<1> DEFINE first == [nc |-> nc, err |-> FALSE]
           step(x, i) == AssumeUnit(units[i], x)
           m == Len(units)
           Is(g, j) == /\ g = [x \in 0..j |-> g[x]] /\ g[0] = first
                       /\ \A i \in 1..j : g[i] = step(g[i - 1], i)
           T == {j \in Nat : \E g : Is(g, j)}
<1> HIDE DEF step, first
<1>1. 0 \in T
  <2> DEFINE g == [x \in 0..0 |-> first]
  <2>1. Is(g, 0)
    OBVIOUS
  <2> QED
    BY <2>1
<1>2. ASSUME NEW j \in Nat, j \in T PROVE j + 1 \in T
  <2>1. PICK h : Is(h, j)
    BY <1>2
  <2> DEFINE g == [x \in 0..(j + 1) |-> IF x = j + 1 THEN step(h[j], j + 1) ELSE h[x]]
  <2>2. g = [x \in 0..(j + 1) |-> g[x]] /\ g[0] = first
    BY <2>1
  <2>3. ASSUME NEW i \in 1..(j + 1) PROVE g[i] = step(g[i - 1], i)
    <3>1. CASE i = j + 1
      BY <2>1, <3>1
    <3>2. CASE i # j + 1
      <4>1. i \in 1..j /\ i - 1 \in 0..j /\ i - 1 # j + 1
        BY <3>2
      <4>2. g[i] = h[i] /\ g[i - 1] = h[i - 1]
        BY <3>2, <4>1
      <4> QED
        BY <2>1, <4>1, <4>2
    <3> QED
      BY <3>1, <3>2
  <2>4. Is(g, j + 1)
    BY <2>2, <2>3
  <2> HIDE DEF Is, g
  <2> QED
    BY <2>4
<1>3. m \in T
  <2>1. \A j \in Nat : j \in T => j + 1 \in T
    BY <1>2
  <2> HIDE DEF T
  <2>2. Nat \subseteq T
    BY <1>1, <2>1, NatInductionSet
  <2> QED
    BY <2>2
<1>4. PICK g : Is(g, m)
  BY <1>3
<1> DEFINE F(f) == [i \in 0..m |-> IF i = 0 THEN first ELSE step(f[i - 1], i)]
<1>5. g = F(g)
  BY <1>4
<1> DEFINE s == Assuming(nc, units)
<1>6. s = CHOOSE f : f = F(f)
  BY DEF Assuming, step, first
<1>7. s = F(s)
  <2> HIDE DEF F, s
  <2> QED
    BY <1>5, <1>6, Zenon
<1> HIDE DEF s
<1>8. s[0] = first /\ \A i \in 1..m : s[i] = step(s[i - 1], i)
  BY <1>7
<1> QED
  BY <1>8 DEF step, s, first

\* What the first units of a request that placed the claims D as a says have
\* charged: Assume skips the charge of an LVM claim that has a record.
Charged(nc, a, D, v) ==
    Total([c \in Claims |-> IF /\ c \in D /\ Kind[c] = "LVM" /\ nc.records[c] = None
                               /\ a[c] = v
                            THEN Size[c] ELSE 0])

DisksTaken(a, D) == {a[c] : c \in {d \in D : Kind[d] # "LVM"}}

After(nc, n, a, D) ==
    [known |-> nc.known, vgs |-> nc.vgs, cap |-> nc.cap,
     req |-> [v \in VGs |-> nc.req[v] + Charged(nc, a, D, v)],
     disks |-> nc.disks \cup DisksTaken(a, D), held |-> nc.held \cup DisksTaken(a, D),
     localPVs |-> nc.localPVs,
     records |-> [c \in Claims |->
                    IF c \in D /\ (Kind[c] # "LVM" \/ nc.records[c] = None)
                    THEN Unit(c, n, a[c]) ELSE nc.records[c]],
     inline |-> nc.inline]

\* A node cache is made of its fields.
Whole(nc) ==
    [known |-> nc.known, vgs |-> nc.vgs, cap |-> nc.cap, req |-> nc.req, disks |-> nc.disks,
     held |-> nc.held, localPVs |-> nc.localPVs, records |-> nc.records, inline |-> nc.inline]

\* What is charged is a number, and one more claim adds its size to its group.
LEMMA ChargedMore ==
    ASSUME NEW nc, NEW a, NEW D, NEW c \in Claims, c \notin D, NEW v
    PROVE  /\ Charged(nc, a, D, v) \in Nat
           /\ Charged(nc, a, D \cup {c}, v)
                = IF Kind[c] = "LVM" /\ nc.records[c] = None /\ a[c] = v
                  THEN Charged(nc, a, D, v) + Size[c] ELSE Charged(nc, a, D, v)
<1> DEFINE f == [d \in Claims |-> IF /\ d \in D /\ Kind[d] = "LVM" /\ nc.records[d] = None
                                     /\ a[d] = v
                                  THEN Size[d] ELSE 0]
           g == [d \in Claims |-> IF /\ d \in D \cup {c} /\ Kind[d] = "LVM"
                                     /\ nc.records[d] = None /\ a[d] = v
                                  THEN Size[d] ELSE 0]
<1>1. f \in [Claims -> 0..MaxSize] /\ g \in [Claims -> 0..MaxSize]
  BY SizeAssumption, MaxSizeAssumption DEF Sizes
<1>2. /\ \A d \in Claims : d # c => g[d] = f[d]
      /\ f[c] = 0
      /\ g[c] = IF Kind[c] = "LVM" /\ nc.records[c] = None /\ a[c] = v THEN Size[c] ELSE 0
  OBVIOUS
<1>3. Total(f) = Charged(nc, a, D, v) /\ Total(g) = Charged(nc, a, D \cup {c}, v)
  BY DEF Charged
<1> HIDE DEF f, g
<1>4. Total(f) \in Nat
  BY <1>1, TotalType, StorageAssumption
<1>5. Total(g) = Total(f) - f[c] + g[c]
  BY <1>1, <1>2, TotalUpdate, StorageAssumption
<1>6. Size[c] \in Nat
  BY SizeAssumption, MaxSizeAssumption DEF Sizes
<1> QED
  BY <1>2, <1>3, <1>4, <1>5, <1>6

\* Assume accepts one more unit if there is room for it, or its disk is free.
LEMMA AssumeOne ==
    ASSUME NEW nc \in NodeCaches, NEW n, NEW a, NEW D \in SUBSET Claims,
           NEW c \in Claims, c \notin D, a[c] \in Fitting(c),
           Kind[c] = "LVM" => /\ a[c] \in nc.vgs
                              /\ nc.req[a[c]] + Charged(nc, a, D, a[c]) + Size[c] <= nc.cap[a[c]],
           Kind[c] # "LVM" => a[c] \notin nc.held \cup DisksTaken(a, D)
    PROVE  AssumeUnit(Unit(c, n, a[c]), [nc |-> After(nc, n, a, D), err |-> FALSE])
             = [nc |-> After(nc, n, a, D \cup {c}), err |-> FALSE]
<1> DEFINE u == Unit(c, n, a[c])
           x == After(nc, n, a, D)
           y == After(nc, n, a, D \cup {c})
           acc == [nc |-> x, err |-> FALSE]
<1>0. u.claim = c /\ u.where = a[c]
  BY DEF Unit
<1>c. ASSUME NEW v
      PROVE  /\ Charged(nc, a, D, v) \in Nat
             /\ Charged(nc, a, D \cup {c}, v)
                  = IF Kind[c] = "LVM" /\ nc.records[c] = None /\ a[c] = v
                    THEN Charged(nc, a, D, v) + Size[c] ELSE Charged(nc, a, D, v)
  BY ChargedMore
<1>1. /\ nc.req \in [VGs -> Int] /\ nc.cap \in [VGs -> Nat] /\ nc.vgs \subseteq VGs
      /\ Size[c] \in Nat
  BY SizeAssumption, MaxSizeAssumption DEF NodeCaches, Sizes
<1>w. x = Whole(x) /\ y = Whole(y)
  BY DEF After, Whole
<1>2. /\ y.known = x.known /\ y.vgs = x.vgs /\ y.cap = x.cap /\ y.localPVs = x.localPVs
      /\ y.inline = x.inline
  BY DEF After
<1>3. x.records[c] = nc.records[c] /\ x.vgs = nc.vgs /\ x.cap = nc.cap
  BY DEF After
<1>4. CASE Kind[c] = "LVM"
  <2>1. a[c] \in VGs
    BY <1>4 DEF Fitting
  <2>2. /\ x.req[a[c]] + Size[c] <= x.cap[a[c]]
        /\ x.req[a[c]] \in Int /\ x.cap[a[c]] \in Int /\ Size[c] \in Int
    BY <1>c, <1>1, <1>4, <2>1 DEF After
  <2>3. x.disks = y.disks /\ x.held = y.held
    <3>1. DisksTaken(a, D \cup {c}) = DisksTaken(a, D)
      BY <1>4 DEF DisksTaken
    <3> QED
      BY <3>1 DEF After
  <2>4. CASE nc.records[c] # None
    <3>1. x.records = y.records
      BY <1>4, <2>4 DEF After
    <3>2. x.req = y.req
      <4>1. \A v \in VGs : Charged(nc, a, D \cup {c}, v) = Charged(nc, a, D, v)
        BY <1>c, <2>4
      <4> QED
        BY <4>1 DEF After
    <3>3. x = y
      BY <1>2, <2>3, <3>1, <3>2 DEF After
    <3>4. AssumeUnit(u, acc) = [acc EXCEPT !.err = FALSE]
      <4>1. acc.nc = x
        OBVIOUS
      <4> HIDE DEF acc, x, u
      <4> QED
        BY <1>0, <1>3, <1>4, <2>2, <2>4, <4>1 DEF AssumeUnit, AssumeLVMUnit
    <3> QED
      BY <3>3, <3>4
  <2>5. CASE nc.records[c] = None
    <3> DEFINE z == [x EXCEPT !.req[a[c]] = @ + Size[c], !.records[c] = u]
    <3>1. z.records = y.records
      BY <1>4, <2>5 DEF After
    <3>2. z.req = y.req
      <4>1. \A v \in VGs : Charged(nc, a, D \cup {c}, v)
                             = IF v = a[c] THEN Charged(nc, a, D, v) + Size[c]
                               ELSE Charged(nc, a, D, v)
        BY <1>c, <1>4, <2>5
      <4>2. /\ y.req = [v \in VGs |-> nc.req[v] + Charged(nc, a, D \cup {c}, v)]
            /\ x.req = [v \in VGs |-> nc.req[v] + Charged(nc, a, D, v)]
        BY DEF After
      <4>3. z.req = [x.req EXCEPT ![a[c]] = @ + Size[c]]
        BY DEF After
      <4> HIDE DEF x, y, z
      <4>4. ASSUME NEW v \in VGs PROVE y.req[v] = z.req[v]
        <5>1. nc.req[v] \in Int /\ Charged(nc, a, D, v) \in Int
          BY <1>c, <1>1
        <5>4. /\ y.req[v] = nc.req[v] + Charged(nc, a, D \cup {c}, v)
              /\ x.req[v] = nc.req[v] + Charged(nc, a, D, v)
          BY <4>2
        <5>2. CASE v = a[c]
          <6>1. z.req[v] = x.req[v] + Size[c]
            BY <4>2, <4>3, <5>2
          <6>2. Charged(nc, a, D \cup {c}, v) = Charged(nc, a, D, v) + Size[c]
            BY <4>1, <5>2
          <6> QED
            BY <1>1, <5>1, <5>4, <6>1, <6>2
        <5>3. CASE v # a[c]
          <6>1. z.req[v] = x.req[v]
            BY <4>2, <4>3, <5>3
          <6>2. Charged(nc, a, D \cup {c}, v) = Charged(nc, a, D, v)
            BY <4>1, <5>3
          <6> QED
            BY <5>4, <6>1, <6>2
        <5> QED
          BY <5>2, <5>3
      <4>5. y.req = [v \in VGs |-> y.req[v]] /\ z.req = [v \in VGs |-> z.req[v]]
        BY <4>2, <4>3
      <4> QED
        BY <4>4, <4>5
    <3>3. z.known = x.known /\ z.vgs = x.vgs /\ z.cap = x.cap /\ z.localPVs = x.localPVs
          /\ z.inline = x.inline /\ z.disks = x.disks /\ z.held = x.held
      BY DEF After
    <3>6. z = Whole(z)
      <4> DEFINE more == x.req[a[c]] + Size[c]
                 q == [x EXCEPT !.req = [@ EXCEPT ![a[c]] = more]]
                 r == [q EXCEPT !.records = [@ EXCEPT ![c] = u]]
      <4> HIDE DEF x, u
      <4>0. z = [x EXCEPT !.req[a[c]] = more, !.records[c] = u]
        OBVIOUS
      <4> HIDE DEF more, z
      <4>1. q = Whole(q)
        BY <1>w DEF Whole
      <4>2. z = r
        BY <1>w, <4>0 DEF Whole
      <4> HIDE DEF q
      <4>3. r = Whole(r)
        BY <4>1 DEF Whole
      <4> QED
        BY <4>2, <4>3
    <3>4. z = y
      <4> HIDE DEF x, y, z
      <4> QED
        BY <1>w, <1>2, <2>3, <3>1, <3>2, <3>3, <3>6 DEF Whole
    <3>5. AssumeUnit(u, acc) = [nc |-> z, err |-> FALSE]
      <4>1. acc.nc = x
        OBVIOUS
      <4> HIDE DEF acc, x, u
      <4> QED
        BY <1>0, <1>3, <1>4, <2>2, <2>5, <4>1 DEF AssumeUnit, AssumeLVMUnit
    <3> QED
      BY <3>4, <3>5
  <2> QED
    BY <2>4, <2>5
<1>5. CASE Kind[c] # "LVM"
  <2>1. Kind[c] \in {"Device", "MountPoint"}
    BY <1>5, KindAssumption
  <2>2. AssumeUnit(u, acc) = TakeDisk(u, acc)
    BY <1>0, <2>1 DEF AssumeUnit, AssumeDeviceUnit, AssumeMountPointUnit
  <2> DEFINE z == [x EXCEPT !.disks = @ \cup {a[c]}, !.held = @ \cup {a[c]}, !.records[c] = u]
  <2>3. DisksTaken(a, D \cup {c}) = DisksTaken(a, D) \cup {a[c]}
    BY <1>5 DEF DisksTaken
  <2>4. z.disks = y.disks /\ z.held = y.held
    BY <2>3 DEF After
  <2>5. z.records = y.records
    BY <1>5 DEF After
  <2>6. x.req = y.req
    <3>1. \A v \in VGs : Charged(nc, a, D \cup {c}, v) = Charged(nc, a, D, v)
      BY <1>c, <1>5
    <3> QED
      BY <3>1 DEF After
  <2>7. z = y
    <3>3. z.known = x.known /\ z.vgs = x.vgs /\ z.cap = x.cap /\ z.localPVs = x.localPVs
          /\ z.inline = x.inline /\ z.req = x.req
      BY DEF After
    <3>6. z = Whole(z)
      <4> DEFINE q == [x EXCEPT !.disks = @ \cup {a[c]}]
                 r == [q EXCEPT !.held = @ \cup {a[c]}]
                 s == [r EXCEPT !.records = [@ EXCEPT ![c] = u]]
      <4> HIDE DEF x, u
      <4>1. q = Whole(q)
        BY <1>w DEF Whole
      <4>2. z = s
        BY <1>w DEF Whole
      <4> HIDE DEF q
      <4>3. r = Whole(r)
        BY <4>1 DEF Whole
      <4> HIDE DEF r
      <4>4. s = Whole(s)
        BY <4>3 DEF Whole
      <4> QED
        BY <4>2, <4>4
    <3> HIDE DEF x, y, z
    <3> QED
      BY <1>w, <1>2, <2>4, <2>5, <2>6, <3>3, <3>6 DEF Whole
  <2>8. a[c] \notin x.held
    BY <1>5 DEF After
  <2>9. TakeDisk(u, acc) = [nc |-> z, err |-> FALSE]
    <3>1. acc.nc = x
      OBVIOUS
    <3> HIDE DEF acc, x, u
    <3> QED
      BY <1>0, <2>8, <3>1 DEF TakeDisk
  <2> QED
    BY <2>2, <2>7, <2>9
<1> QED
  BY <1>4, <1>5

\* A claim whose disk was found has it alone, and it is a free disk of its kind.
LEMMA DiskFound ==
    ASSUME NEW C \in SUBSET Claims, NEW F \in SUBSET Disks, NEW a, AllDisksFound(C, F, a)
    PROVE  /\ \A c \in C : a[c] \in F
           /\ \A c, d \in C : a[c] = a[d] => c = d
<1> DEFINE W(m) == DividePVCAccordingToMediaType(C, m)
           E(m) == DisksOf(F, m)
<1>1. ASSUME NEW m \in {"ssd", "hdd"}
      PROVE  /\ \A c \in W(m) : a[c] \in E(m)
             /\ \A c, d \in W(m) : a[c] = a[d] => c = d
  <2>1. ExclusiveUnits(W(m), E(m), a)
    BY DEF AllDisksFound
  <2>2. W(m) \subseteq Claims /\ E(m) \subseteq Disks
    BY DEF DividePVCAccordingToMediaType, DisksOf
  <2> HIDE DEF W, E
  <2> DEFINE k == Cardinality(W(m))
             q == Cardinality(E(m))
  <2>3. IsFiniteSet(W(m)) /\ IsFiniteSet(E(m))
    BY <2>2, StorageAssumption, FS_Subset
  <2>4. PICK cs \in Orders(W(m), Size), ds \in Orders(E(m), DiskSize) :
            \A j \in 1..k : \E i \in 1..q :
               /\ Served(cs, k, ds, q)[i] = j
               /\ Served(cs, k, ds, q)[i - 1] = j - 1 /\ a[cs[j]] = ds[i]
    BY <2>1 DEF ExclusiveUnits
  <2>5. k \in Nat /\ q \in Nat
    BY <2>3, FS_CardinalityType
  <2>6. \A c \in W(m) : \E j \in 1..k : cs[j] = c
    BY <2>3, OrderIsOnto
  <2>7. /\ ds \in [1..q -> E(m)] /\ \A i, j \in 1..q : ds[i] = ds[j] => i = j
    BY DEF Orders
  <2> DEFINE s == Served(cs, k, ds, q)
  <2> HIDE DEF k, q, s
  <2>8. \A c \in W(m) : \E j \in 1..k : \E i \in 1..q : cs[j] = c /\ s[i] = j /\ a[c] = ds[i]
    BY <2>4, <2>6 DEF k, q, s
  <2>9. \A c \in W(m) : a[c] \in E(m)
    BY <2>7, <2>8
  <2>10. \A c, d \in W(m) : a[c] = a[d] => c = d
    BY <2>7, <2>8
  <2> QED
    BY <2>9, <2>10
<1>2. \A c \in C : Media[c] \in {"ssd", "hdd"} /\ c \in W(Media[c])
  BY KindAssumption DEF DividePVCAccordingToMediaType
<1>3. \A m : E(m) \subseteq F /\ \A x \in E(m) : DiskMedia[x] = m
  BY DEF DisksOf
<1> HIDE DEF W, E
<1>4. \A c \in C : a[c] \in F /\ DiskMedia[a[c]] = Media[c]
  BY <1>1, <1>2, <1>3
<1> QED
  BY <1>1, <1>2, <1>4

\* A request gets only free disks, and no disk twice.
LEMMA DisksPlaced ==
    ASSUME NEW nc \in NodeCaches, NEW ps, NEW S \in SUBSET Claims,
           NEW a \in Placements(nc, ps, S)
    PROVE  /\ \A c \in S : Kind[c] # "LVM" => a[c] \in nc.disks \ nc.held
           /\ \A c, d \in S : Kind[c] # "LVM" /\ Kind[d] # "LVM" /\ a[c] = a[d] => c = d
<1>1. /\ AllDisksFound(OfKind(S, "MountPoint"), GetFreeMP(nc), a)
      /\ AllDisksFound(OfKind(S, "Device"), GetFreeDevice(nc), a)
  BY DEF Placements, ScoreMountPointVolume, ScoreDeviceVolume
<1>2. /\ OfKind(S, "MountPoint") \in SUBSET Claims /\ OfKind(S, "Device") \in SUBSET Claims
      /\ \A c \in S : Kind[c] # "LVM" => c \in OfKind(S, "MountPoint") \cup OfKind(S, "Device")
  BY KindAssumption DEF OfKind
<1>3. /\ GetFreeMP(nc) \in SUBSET Disks /\ GetFreeDevice(nc) \in SUBSET Disks
      /\ GetFreeMP(nc) \cup GetFreeDevice(nc) \subseteq nc.disks \ nc.held
      /\ GetFreeMP(nc) \cap GetFreeDevice(nc) = {}
  BY DEF GetFreeMP, GetFreeDevice, NodeCaches
<1>4. /\ \A c \in OfKind(S, "MountPoint") : a[c] \in GetFreeMP(nc)
      /\ \A c, d \in OfKind(S, "MountPoint") : a[c] = a[d] => c = d
  BY <1>1, <1>2, <1>3, DiskFound
<1>5. /\ \A c \in OfKind(S, "Device") : a[c] \in GetFreeDevice(nc)
      /\ \A c, d \in OfKind(S, "Device") : a[c] = a[d] => c = d
  BY <1>1, <1>2, <1>3, DiskFound
<1> QED
  BY <1>2, <1>3, <1>4, <1>5

\* At most one LVM claim of S leaves the choice of its volume group open.
OneOpen(S) == \A c, d \in OfKind(S, "LVM") : VGParam[c] = None /\ VGParam[d] = None => c = d

\* A request takes what it has placed into account.  Binpack always does; the map
\* that Spread reads has the claims that name their group only, which is enough
\* when no pod has two claims that name none.
PlacesCounted == Spread => \A p \in Pods : OneOpen(Mounts(p))

\* If at most one claim names no group, the claims with an earlier turn name theirs.
LEMMA EarlierNamed ==
    ASSUME NEW ps \in Seq(Claims), NEW S \in SUBSET Range(ps), S \subseteq Claims, OneOpen(S),
           NEW c \in OfKind(S, "LVM"), NEW d \in OfKind(S, "LVM"),
           DivideLVMPVCs(ps, S)[d] < DivideLVMPVCs(ps, S)[c]
    PROVE  VGParam[d] # None
<1> SUFFICES ASSUME VGParam[d] = None PROVE FALSE
  OBVIOUS
<1>1. /\ c \in S /\ d \in S /\ Kind[c] = "LVM" /\ Kind[d] = "LVM"
      /\ Position(ps, c) \in 1..Len(ps) /\ Position(ps, d) \in 1..Len(ps) /\ Len(ps) \in Nat
  BY PositionOfClaim DEF OfKind
<1>2. DivideLVMPVCs(ps, S)[d] = Len(ps) + Position(ps, d)
  BY <1>1 DEF DivideLVMPVCs
<1>3. CASE VGParam[c] = None
  <2>1. c = d
    BY <1>3 DEF OneOpen
  <2> QED
    BY <1>1, <1>2, <2>1
<1>4. CASE VGParam[c] # None
  <2>1. DivideLVMPVCs(ps, S)[c] = Position(ps, c)
    BY <1>1, <1>4 DEF DivideLVMPVCs
  <2> QED
    BY <1>1, <1>2, <2>1
<1> QED
  BY <1>3, <1>4

\* What is free for a claim depends only on where the counted LVM claims before it are.
LEMMA FreeAtFrame ==
    ASSUME NEW nc, NEW ps, NEW S \in SUBSET Claims, NEW a, NEW b, NEW c, NEW v, NEW C, NEW D,
           \A d \in OfKind(S, "LVM") :
              DivideLVMPVCs(ps, S)[d] < DivideLVMPVCs(ps, S)[c] =>
                 (d \in C /\ a[d] = v <=> d \in D /\ b[d] = v)
    PROVE  FreeAt(nc, ps, S, a, c, v, C) = FreeAt(nc, ps, S, b, c, v, D)
<1> DEFINE f == [d \in Claims |->
                   IF /\ d \in C \cap OfKind(S, "LVM") /\ a[d] = v
                      /\ DivideLVMPVCs(ps, S)[d] < DivideLVMPVCs(ps, S)[c]
                   THEN Size[d] ELSE 0]
           g == [d \in Claims |->
                   IF /\ d \in D \cap OfKind(S, "LVM") /\ b[d] = v
                      /\ DivideLVMPVCs(ps, S)[d] < DivideLVMPVCs(ps, S)[c]
                   THEN Size[d] ELSE 0]
<1>1. f = g
  OBVIOUS
<1>2. /\ FreeAt(nc, ps, S, a, c, v, C) = nc.cap[v] - nc.req[v] - Total(f)
      /\ FreeAt(nc, ps, S, b, c, v, D) = nc.cap[v] - nc.req[v] - Total(g)
  BY DEF FreeAt
<1> HIDE DEF f, g
<1> QED
  BY <1>1, <1>2

\* If at most one claim names no group, Spread sees all that was placed before.
LEMMA SpreadCounts ==
    ASSUME NEW nc, NEW ps \in Seq(Claims), NEW S \in SUBSET Range(ps), S \subseteq Claims,
           OneOpen(S), NEW a, NEW c \in OfKind(S, "LVM"), NEW v
    PROVE  FreeAt(nc, ps, S, a, c, v, {d \in Claims : VGParam[d] # None})
              = FreeAt(nc, ps, S, a, c, v, Claims)
<1> DEFINE N == {d \in Claims : VGParam[d] # None}
<1>1. S \in SUBSET Claims
  OBVIOUS
<1>2. \A d \in OfKind(S, "LVM") :
        DivideLVMPVCs(ps, S)[d] < DivideLVMPVCs(ps, S)[c] =>
           (d \in N /\ a[d] = v <=> d \in Claims /\ a[d] = v)
  BY EarlierNamed DEF OfKind
<1> HIDE DEF N
<1>3. FreeAt(nc, ps, S, a, c, v, N) = FreeAt(nc, ps, S, a, c, v, Claims)
  BY <1>1, <1>2, FreeAtFrame
<1> QED
  BY <1>3 DEF N

\* An LVM claim goes to its group or to one of the node's, and there is room for it
\* when it is its turn.
LEMMA PlacedLVM ==
    ASSUME NEW nc, NEW ps \in Seq(Claims), NEW S \in SUBSET Range(ps), S \subseteq Claims,
           Spread => OneOpen(S), NEW a \in Placements(nc, ps, S), NEW c \in OfKind(S, "LVM")
    PROVE  /\ a[c] \in nc.vgs /\ FreeAt(nc, ps, S, a, c, a[c], Claims) >= Size[c]
           /\ VGParam[c] # None => a[c] = VGParam[c]
<1>1. CASE ~Spread
  BY <1>1 DEF Placements, ScoreLVMVolume, ProcessLVMPVCPriority, Binpack
<1>2. CASE Spread
  <2>1. /\ a[c] \in nc.vgs
        /\ FreeAt(nc, ps, S, a, c, a[c], {d \in Claims : VGParam[d] # None}) >= Size[c]
        /\ VGParam[c] # None => a[c] = VGParam[c]
    BY <1>2 DEF Placements, ScoreLVMVolume, ProcessLVMPVCPriority, SpreadOut
  <2>2. FreeAt(nc, ps, S, a, c, a[c], {d \in Claims : VGParam[d] # None})
           = FreeAt(nc, ps, S, a, c, a[c], Claims)
    BY <1>2, SpreadCounts
  <2> QED
    BY <2>1, <2>2
<1> QED
  BY <1>1, <1>2

\* The LVM claims of a request have room when it is their turn.
LEMMA RoomAtTurn ==
    ASSUME NEW nc \in NodeCaches, NEW ps \in Seq(Claims), NEW S \in SUBSET Range(ps),
           S \subseteq Claims, Spread => OneOpen(S),
           NEW a \in Placements(nc, ps, S), NEW c \in S, Kind[c] = "LVM",
           NEW D \in SUBSET S,
           \A d \in D : Kind[d] = "LVM" =>
                           DivideLVMPVCs(ps, S)[d] < DivideLVMPVCs(ps, S)[c]
    PROVE  /\ a[c] \in nc.vgs
           /\ VGParam[c] # None => a[c] = VGParam[c]
           /\ nc.req[a[c]] + Charged(nc, a, D, a[c]) + Size[c] <= nc.cap[a[c]]
<1> DEFINE t == DivideLVMPVCs(ps, S)
           f == [d \in Claims |-> IF /\ d \in Claims \cap OfKind(S, "LVM") /\ a[d] = a[c]
                                     /\ DivideLVMPVCs(ps, S)[d] < DivideLVMPVCs(ps, S)[c]
                                  THEN Size[d] ELSE 0]
           g == [d \in Claims |-> IF /\ d \in D /\ Kind[d] = "LVM" /\ nc.records[d] = None
                                     /\ a[d] = a[c]
                                  THEN Size[d] ELSE 0]
<1>1. /\ a[c] \in nc.vgs /\ FreeAt(nc, ps, S, a, c, a[c], Claims) >= Size[c]
      /\ VGParam[c] # None => a[c] = VGParam[c]
  BY PlacedLVM DEF OfKind
<1>2. /\ FreeAt(nc, ps, S, a, c, a[c], Claims) = nc.cap[a[c]] - nc.req[a[c]] - Total(f)
      /\ Charged(nc, a, D, a[c]) = Total(g)
  BY DEF FreeAt, Charged
<1>3. f \in [Claims -> 0..MaxSize] /\ g \in [Claims -> 0..MaxSize]
  BY SizeAssumption, MaxSizeAssumption DEF Sizes
<1>4. \A d \in Claims : g[d] <= f[d]
  BY SizeAssumption, MaxSizeAssumption DEF Sizes, OfKind
<1> HIDE DEF f, g
<1>5. Total(f) \in Nat /\ Total(g) \in Nat /\ Total(g) <= Total(f)
  BY <1>3, <1>4, TotalType, TotalMonotone, StorageAssumption
<1>6. nc.req[a[c]] \in Int /\ nc.cap[a[c]] \in Int /\ Size[c] \in Int
  BY <1>1, SizeAssumption, MaxSizeAssumption DEF NodeCaches, Sizes
<1> QED
  BY <1>1, <1>2, <1>5, <1>6

\* Assume accepts what a request has placed, whole: the claims are charged in the
\* order in which they were placed.
LEMMA AssumeAccepts ==
    ASSUME NEW nc \in NodeCaches, NEW n, NEW ps \in Seq(Claims),
           NEW S \in SUBSET Range(ps), S \subseteq Claims, Spread => OneOpen(S),
           NEW a \in Placements(nc, ps, S), NEW s \in Orders(S, DivideLVMPVCs(ps, S)),
           NEW units, units = [i \in 1..Cardinality(S) |-> Unit(s[i], n, a[s[i]])]
    PROVE  Assume(nc, units) = [nc |-> After(nc, n, a, S), err |-> FALSE]
<1> DEFINE k == Cardinality(S)
           t == DivideLVMPVCs(ps, S)
           Done(i) == {s[j] : j \in 1..i}
           after == Assuming(nc, units)
           T == {i \in Nat : i <= k => after[i] = [nc |-> After(nc, n, a, Done(i)), err |-> FALSE]}
<1>1. IsFiniteSet(S) /\ k \in Nat
  BY StorageAssumption, FS_Subset, FS_CardinalityType
<1>2. Len(units) = k
  BY <1>1
<1>3. /\ after[0] = [nc |-> nc, err |-> FALSE]
      /\ \A i \in 1..k : after[i] = AssumeUnit(units[i], after[i - 1])
  BY <1>1, <1>2, AssumingRecursion
<1>4. /\ s \in [1..k -> S]
      /\ \A i, j \in 1..k : (s[i] = s[j] => i = j) /\ (i < j => t[s[i]] <= t[s[j]])
  BY DEF Orders
<1>5. /\ t \in [S -> Nat]
      /\ \A c, d \in OfKind(S, "LVM") : t[c] = t[d] => c = d
  BY TurnsDiffer
<1>6. 0 \in T
  <2>1. Done(0) = {}
    OBVIOUS
  <2>2. After(nc, n, a, {}) = nc
    <3> DEFINE x == After(nc, n, a, {})
    <3>1. \A v \in VGs : Charged(nc, a, {}, v) = 0
      <4> SUFFICES ASSUME NEW v \in VGs PROVE Charged(nc, a, {}, v) = 0
        OBVIOUS
      <4> DEFINE f == [c \in Claims |-> IF /\ c \in {} /\ Kind[c] = "LVM" /\ nc.records[c] = None
                                           /\ a[c] = v
                                        THEN Size[c] ELSE 0]
      <4>1. f \in [Claims -> 0..MaxSize] /\ \A c \in Claims : f[c] = 0
        BY MaxSizeAssumption
      <4>2. Charged(nc, a, {}, v) = Total(f)
        BY DEF Charged
      <4> HIDE DEF f
      <4> QED
        BY <4>1, <4>2, TotalZero
    <3>2. nc = Whole(nc) /\ x = Whole(x)
      BY DEF NodeCaches, After, Whole
    <3>3. x.req = nc.req /\ x.records = nc.records
      BY <3>1 DEF After, NodeCaches
    <3>4. x.disks = nc.disks /\ x.held = nc.held
      BY DEF After, DisksTaken
    <3>5. /\ x.known = nc.known /\ x.vgs = nc.vgs /\ x.cap = nc.cap
          /\ x.localPVs = nc.localPVs /\ x.inline = nc.inline
      BY DEF After
    <3> HIDE DEF x
    <3>6. x = nc
      BY <3>2, <3>3, <3>4, <3>5 DEF Whole
    <3> QED
      BY <3>6 DEF x
  <2> QED
    BY <1>3, <2>1, <2>2
<1>7. ASSUME NEW i \in Nat, i \in T PROVE i + 1 \in T
  <2> SUFFICES ASSUME i + 1 <= k
               PROVE  after[i + 1] = [nc |-> After(nc, n, a, Done(i + 1)), err |-> FALSE]
    OBVIOUS
  <2> DEFINE c == s[i + 1]
             D == Done(i)
  <2>1. i + 1 \in 1..k /\ (i + 1) - 1 = i /\ i <= k
    BY <1>1
  <2>2. after[i] = [nc |-> After(nc, n, a, D), err |-> FALSE]
    BY <1>7, <2>1
  <2>3. c \in S /\ c \in Claims /\ units[i + 1] = Unit(c, n, a[c])
    BY <1>4, <2>1
  <2>4. Done(i + 1) = D \cup {c}
    <3>1. 1..(i + 1) = (1..i) \cup {i + 1}
      OBVIOUS
    <3> QED
      BY <3>1
  <2>5. D \subseteq S /\ c \notin D
    BY <1>1, <1>4, <2>1
  <2>6. \A d \in D : t[d] <= t[c] /\ d # c
    BY <1>1, <1>4, <2>1, <2>5
  <2> HIDE DEF c, D, Done, T
  <2>7. a[c] \in Fitting(c)
    BY <2>3, KindAssumption DEF Placements, Fitting
  <2>8. Kind[c] = "LVM" =>
          /\ a[c] \in nc.vgs
          /\ nc.req[a[c]] + Charged(nc, a, D, a[c]) + Size[c] <= nc.cap[a[c]]
    <3> SUFFICES ASSUME Kind[c] = "LVM"
                 PROVE  /\ a[c] \in nc.vgs
                        /\ nc.req[a[c]] + Charged(nc, a, D, a[c]) + Size[c] <= nc.cap[a[c]]
      OBVIOUS
    <3>1. \A d \in D : Kind[d] = "LVM" => t[d] < t[c]
      BY <1>5, <2>3, <2>5, <2>6 DEF OfKind
    <3> HIDE DEF t
    <3> QED
      BY <2>3, <2>5, <3>1, RoomAtTurn DEF t
  <2>9. Kind[c] # "LVM" => a[c] \notin nc.held \cup DisksTaken(a, D)
    <3>1. /\ \A d \in S : Kind[d] # "LVM" => a[d] \in nc.disks \ nc.held
          /\ \A d, e \in S : Kind[d] # "LVM" /\ Kind[e] # "LVM" /\ a[d] = a[e] => d = e
      BY DisksPlaced
    <3> QED
      BY <2>3, <2>5, <3>1 DEF DisksTaken
  <2>10. D \in SUBSET Claims
    BY <2>5
  <2>11. AssumeUnit(Unit(c, n, a[c]), [nc |-> After(nc, n, a, D), err |-> FALSE])
            = [nc |-> After(nc, n, a, D \cup {c}), err |-> FALSE]
    BY <2>3, <2>5, <2>7, <2>8, <2>9, <2>10, AssumeOne
  <2> QED
    BY <1>3, <2>1, <2>2, <2>3, <2>4, <2>11
<1>8. k \in T
  <2>1. \A i \in Nat : i \in T => i + 1 \in T
    BY <1>7
  <2> HIDE DEF T
  <2>2. Nat \subseteq T
    BY <1>6, <2>1, NatInductionSet
  <2> QED
    BY <1>1, <2>2
<1>9. Done(k) = S
  BY <1>1, <1>4, OrderIsOnto
<1>10. after[k] = [nc |-> After(nc, n, a, S), err |-> FALSE]
  <2> HIDE DEF Done, after
  <2> QED
    BY <1>1, <1>8, <1>9
<1> QED
  BY <1>2, <1>10 DEF Assume

----------------------------------------------------------------------------
(* What passes the filter can be placed *)

\* Some element of a finite set has the largest key.
LEMMA LargestKey ==
    ASSUME NEW key, NEW U, \A x \in U : key[x] \in Int
    PROVE  \A S \in SUBSET U : IsFiniteSet(S) /\ S # {} =>
               \E x \in S : \A y \in S : key[y] <= key[x]
<1> DEFINE Top(S) == \E x \in S : \A y \in S : key[y] <= key[x]
           T == {k \in Nat : \A S \in SUBSET U :
                    IsFiniteSet(S) /\ S # {} /\ Cardinality(S) = k => Top(S)}
<1>1. 0 \in T
  <2>1. \A S : IsFiniteSet(S) /\ Cardinality(S) = 0 => S = {}
    BY FS_EmptySet
  <2> QED
    BY <2>1
<1>2. ASSUME NEW k \in Nat, k \in T PROVE k + 1 \in T
  <2> SUFFICES ASSUME NEW S \in SUBSET U, IsFiniteSet(S), S # {}, Cardinality(S) = k + 1
               PROVE  Top(S)
    OBVIOUS
  <2>1. PICK x \in S : TRUE
    OBVIOUS
  <2> DEFINE R == S \ {x}
  <2>2. IsFiniteSet(R) /\ Cardinality(R) = k
    <3>1. IsFiniteSet(R) /\ Cardinality(R) = IF x \in S THEN Cardinality(S) - 1 ELSE Cardinality(S)
      BY FS_RemoveElement, Zenon
    <3> QED
      BY <2>1, <3>1
  <2>3. CASE R = {}
    BY <2>1, <2>3
  <2>4. CASE R # {}
    <3>1. R \in SUBSET U
      OBVIOUS
    <3>2. Top(R)
      <4> HIDE DEF R
      <4> QED
        BY <1>2, <2>2, <2>4, <3>1
    <3>3. PICK z \in R : \A y \in R : key[y] <= key[z]
      BY <3>2
    <3>4. key[x] \in Int /\ key[z] \in Int /\ \A y \in R : key[y] \in Int
      BY <2>1, <3>3
    <3>5. CASE key[x] <= key[z]
      BY <3>3, <3>5
    <3>6. CASE key[z] < key[x]
      <4>1. \A y \in S : key[y] <= key[x]
        BY <3>3, <3>4, <3>6
      <4> QED
        BY <2>1, <4>1
    <3> QED
      BY <3>4, <3>5, <3>6
  <2> QED
    BY <2>3, <2>4
<1>3. Nat \subseteq T
  <2>1. \A k \in Nat : k \in T => k + 1 \in T
    BY <1>2
  <2> HIDE DEF T
  <2> QED
    BY <1>1, <2>1, NatInductionSet
<1> SUFFICES ASSUME NEW S \in SUBSET U, IsFiniteSet(S), S # {} PROVE Top(S)
  OBVIOUS
<1>4. Cardinality(S) \in Nat
  BY FS_CardinalityType
<1> QED
  BY <1>3, <1>4

\* sort.Slice always finds an order.
LEMMA OrderExists ==
    ASSUME NEW key, NEW U, IsFiniteSet(U), \A x \in U : key[x] \in Int
    PROVE  \A S \in SUBSET U : Orders(S, key) # {}
<1> DEFINE T == {k \in Nat : \A S \in SUBSET U : Cardinality(S) = k => Orders(S, key) # {}}
<1>0. \A S \in SUBSET U : IsFiniteSet(S) /\ Cardinality(S) \in Nat
  BY FS_Subset, FS_CardinalityType
<1>1. 0 \in T
  <2> SUFFICES ASSUME NEW S \in SUBSET U, Cardinality(S) = 0 PROVE Orders(S, key) # {}
    OBVIOUS
  <2>1. S = {}
    BY <1>0, FS_EmptySet
  <2> DEFINE s == [i \in 1..0 |-> 0]
  <2>2. s \in Orders(S, key)
    BY <2>1 DEF Orders
  <2> QED
    BY <2>2
<1>2. ASSUME NEW k \in Nat, k \in T PROVE k + 1 \in T
  <2> SUFFICES ASSUME NEW S \in SUBSET U, Cardinality(S) = k + 1 PROVE Orders(S, key) # {}
    OBVIOUS
  <2>0. IsFiniteSet(S) /\ S # {}
    BY <1>0, FS_EmptySet
  <2>1. PICK z \in S : \A y \in S : key[y] <= key[z]
    BY <2>0, LargestKey
  <2> DEFINE R == S \ {z}
  <2>2. R \in SUBSET U /\ Cardinality(R) = k
    <3>1. Cardinality(R) = IF z \in S THEN Cardinality(S) - 1 ELSE Cardinality(S)
      BY <2>0, FS_RemoveElement, Zenon
    <3> QED
      BY <2>1, <3>1
  <2>3. Orders(R, key) # {}
    <3> HIDE DEF R
    <3> QED
      BY <1>2, <2>2
  <2>4. PICK r : r \in Orders(R, key)
    BY <2>3
  <2>5. /\ r \in [1..k -> R]
        /\ \A i, j \in 1..k : (r[i] = r[j] => i = j) /\ (i < j => key[r[i]] <= key[r[j]])
    <3> HIDE DEF R
    <3> QED
      BY <2>2, <2>4 DEF Orders
  <2> DEFINE s == [i \in 1..(k + 1) |-> IF i = k + 1 THEN z ELSE r[i]]
  <2>6. \A i \in 1..(k + 1) : i # k + 1 => i \in 1..k
    OBVIOUS
  <2>7. s \in [1..(k + 1) -> S]
    BY <2>1, <2>5, <2>6
  <2>8. ASSUME NEW i \in 1..(k + 1), NEW j \in 1..(k + 1)
        PROVE  (s[i] = s[j] => i = j) /\ (i < j => key[s[i]] <= key[s[j]])
    <3>1. CASE i = k + 1 /\ j = k + 1
      BY <3>1
    <3>2. CASE i # k + 1 /\ j # k + 1
      BY <2>5, <2>6, <3>2
    <3>3. CASE i # k + 1 /\ j = k + 1
      BY <2>1, <2>5, <2>6, <3>3
    <3>4. CASE i = k + 1 /\ j # k + 1
      BY <2>1, <2>5, <2>6, <3>4
    <3> QED
      BY <3>1, <3>2, <3>3, <3>4
  <2>9. s \in Orders(S, key)
    <3> HIDE DEF s
    <3> QED
      BY <2>7, <2>8 DEF Orders
  <2> QED
    BY <2>9
<1>3. Nat \subseteq T
  <2>1. \A k \in Nat : k \in T => k + 1 \in T
    BY <1>2
  <2> HIDE DEF T
  <2> QED
    BY <1>1, <2>1, NatInductionSet
<1> QED
  BY <1>0, <1>3

\* The claims served after disk i, when q were served before it.
ServedBy(cs, k, ds, q, i) == IF q < k /\ Size[cs[q + 1]] <= DiskSize[ds[i]] THEN q + 1 ELSE q

\* The recursive definition of Served has a solution, so its equations hold.
LEMMA ServedRecursion ==
  ASSUME NEW cs, NEW k \in Nat, NEW ds, NEW m \in Nat
  PROVE  LET s == Served(cs, k, ds, m)
         IN  /\ s \in [0..m -> Nat]
             /\ s[0] = 0
             /\ \A i \in 1..m : s[i] = ServedBy(cs, k, ds, s[i - 1], i)
<1> DEFINE step(q, i) == ServedBy(cs, k, ds, q, i)
           Is(g, j) == /\ g \in [0..j -> Nat] /\ g[0] = 0
                       /\ \A i \in 1..j : g[i] = step(g[i - 1], i)
           T == {j \in Nat : \E g : Is(g, j)}
<1>0. \A i : \A q \in Nat : step(q, i) \in Nat
  BY DEF ServedBy
<1> HIDE DEF step
<1>1. 0 \in T
  <2> DEFINE g == [x \in 0..0 |-> 0]
  <2>1. Is(g, 0)
    OBVIOUS
  <2> QED
    BY <2>1
<1>2. ASSUME NEW j \in Nat, j \in T PROVE j + 1 \in T
  <2>1. PICK h : Is(h, j)
    BY <1>2
  <2> DEFINE g == [x \in 0..(j + 1) |-> IF x = j + 1 THEN step(h[j], j + 1) ELSE h[x]]
  <2>2. g \in [0..(j + 1) -> Nat] /\ g[0] = 0
    BY <1>0, <2>1
  <2>3. ASSUME NEW i \in 1..(j + 1) PROVE g[i] = step(g[i - 1], i)
    <3>1. CASE i = j + 1
      BY <2>1, <3>1
    <3>2. CASE i # j + 1
      <4>1. i \in 1..j /\ i - 1 \in 0..j /\ i - 1 # j + 1
        BY <3>2
      <4>2. g[i] = h[i] /\ g[i - 1] = h[i - 1]
        BY <3>2, <4>1
      <4> QED
        BY <2>1, <4>1, <4>2
    <3> QED
      BY <3>1, <3>2
  <2>4. Is(g, j + 1)
    BY <2>2, <2>3
  <2> HIDE DEF Is, g
  <2> QED
    BY <2>4
<1>3. m \in T
  <2>1. \A j \in Nat : j \in T => j + 1 \in T
    BY <1>2
  <2> HIDE DEF T
  <2>2. Nat \subseteq T
    BY <1>1, <2>1, NatInductionSet
  <2> QED
    BY <2>2
<1>4. PICK g : Is(g, m)
  BY <1>3
<1> DEFINE F(f) == [i \in 0..m |-> IF i = 0 THEN 0 ELSE step(f[i - 1], i)]
<1>5. g = F(g)
  BY <1>4
<1> DEFINE s == Served(cs, k, ds, m)
<1>6. s = CHOOSE f : f = F(f)
  BY DEF Served, ServedBy, step
<1>7. s = F(s)
  <2> HIDE DEF F, s
  <2> QED
    BY <1>5, <1>6, Zenon
<1> HIDE DEF s
<1>8. s[0] = 0 /\ \A i \in 1..m : s[i] = step(s[i - 1], i)
  BY <1>7
<1> DEFINE U == {j \in Nat : j <= m => s[j] \in Nat}
<1>9. \A j \in Nat : j \in U => j + 1 \in U
  <2> SUFFICES ASSUME NEW j \in Nat, j \in U, j + 1 <= m PROVE s[j + 1] \in Nat
    OBVIOUS
  <2>1. j + 1 \in 1..m /\ (j + 1) - 1 = j /\ s[j] \in Nat
    OBVIOUS
  <2> QED
    BY <1>0, <1>8, <2>1
<1>10. 0 \in U
  BY <1>8
<1>11. Nat \subseteq U
  <2> HIDE DEF U
  <2> QED
    BY <1>9, <1>10, NatInductionSet
<1>12. s \in [0..m -> Nat]
  <2>1. \A j \in 0..m : s[j] \in Nat
    BY <1>11
  <2> QED
    BY <1>7, <2>1
<1> QED
  BY <1>8, <1>12 DEF step, s

\* No claim needs no disk.
LEMMA NoDiskWanted ==
    ASSUME NEW F \in SUBSET Disks, NEW a
    PROVE  ExclusiveUnits({}, F, a)
<1>1. Orders({}, Size) # {}
  <2>1. IsFiniteSet({}) /\ {} \in SUBSET {} /\ \A x \in {} : Size[x] \in Int
    BY FS_EmptySet
  <2> QED
    BY <2>1, OrderExists
<1>2. Orders(F, DiskSize) # {}
  <2>1. \A x \in Disks : DiskSize[x] \in Int
    BY SizeAssumption
  <2> QED
    BY <2>1, OrderExists, StorageAssumption
<1>3. Cardinality({}) = 0
  BY FS_EmptySet
<1> QED
  BY <1>1, <1>2, <1>3 DEF ExclusiveUnits

\* One claim that passes the filter finds its disk: with nobody to compete with, the
\* disks run out only if the last one is too small, and that is an error.
LEMMA OneDisk ==
    ASSUME NEW c \in Claims, NEW C, c \in C, \A x \in C : x = c, NEW F \in SUBSET Disks, 1 <= Cardinality(F),
           CheckExclusiveResourceMeetsPVCSize(C, F)
    PROVE  \E d \in F : \A a : a[c] = d => ExclusiveUnits(C, F, a)
<1> DEFINE m == Cardinality(F)
<1>1. m \in Nat /\ IsFiniteSet(F)
  BY StorageAssumption, FS_Subset, FS_CardinalityType
<1>2. Cardinality(C) = 1
  <2>1. C = {c}
    OBVIOUS
  <2> QED
    BY <2>1, FS_Singleton
<1>3. PICK cs \in Orders(C, Size), ds \in Orders(F, DiskSize) :
        ~(m > 0 /\ Served(cs, 1, ds, m)[m - 1] < 1
                /\ Served(cs, 1, ds, m)[m] = Served(cs, 1, ds, m)[m - 1])
  BY <1>2 DEF CheckExclusiveResourceMeetsPVCSize
<1> DEFINE s == Served(cs, 1, ds, m)
           T == {i \in Nat : i <= m => s[i] = 0 \/ \E j \in 1..i : s[j] = 1 /\ s[j - 1] = 0}
<1>4. /\ s \in [0..m -> Nat] /\ s[0] = 0
      /\ \A i \in 1..m : s[i] = ServedBy(cs, 1, ds, s[i - 1], i)
  <2> DEFINE k == 1
  <2>1. k \in Nat
    OBVIOUS
  <2> HIDE DEF k, m
  <2>2. LET q == Served(cs, k, ds, m)
        IN  /\ q \in [0..m -> Nat]
            /\ q[0] = 0
            /\ \A i \in 1..m : q[i] = ServedBy(cs, k, ds, q[i - 1], i)
    BY <1>1, <2>1, ServedRecursion
  <2> QED
    BY <2>2 DEF k
<1>5. cs[1] = c /\ ds \in [1..m -> F]
  <2>1. cs \in [1..1 -> C] /\ 1 \in 1..1
    BY <1>2 DEF Orders
  <2>2. cs[1] = c
    BY <2>1
  <2> QED
    BY <2>2 DEF Orders
<1> HIDE DEF s, m
<1>6. 0 \in T
  BY <1>4
<1>7. ASSUME NEW i \in Nat, i \in T PROVE i + 1 \in T
  <2> SUFFICES ASSUME i + 1 <= m
               PROVE  s[i + 1] = 0 \/ \E j \in 1..(i + 1) : s[j] = 1 /\ s[j - 1] = 0
    OBVIOUS
  <2>1. i + 1 \in 1..m /\ (i + 1) - 1 = i /\ i <= m /\ i \in 0..m
    BY <1>1
  <2>2. CASE s[i] = 0
    <3>1. s[i + 1] \in {0, 1}
      BY <1>4, <2>1, <2>2 DEF ServedBy
    <3> QED
      BY <2>1, <2>2, <3>1
  <2>3. CASE \E j \in 1..i : s[j] = 1 /\ s[j - 1] = 0
    BY <2>3
  <2> QED
    BY <1>7, <2>1, <2>2, <2>3
<1>8. m \in T
  <2>1. \A i \in Nat : i \in T => i + 1 \in T
    BY <1>7
  <2> HIDE DEF T
  <2>2. Nat \subseteq T
    BY <1>6, <2>1, NatInductionSet
  <2> QED
    BY <1>1, <2>2
<1>9. 1 <= m /\ m > 0 /\ m \in 1..m /\ m - 1 \in 0..m
  BY <1>1 DEF m
<1>10. s[m] # 0
  <2> SUFFICES ASSUME s[m] = 0 PROVE FALSE
    OBVIOUS
  <2>1. s[m] = ServedBy(cs, 1, ds, s[m - 1], m) /\ s[m - 1] \in Nat
    BY <1>4, <1>9
  <2>2. s[m - 1] = 0
    BY <2>1 DEF ServedBy
  <2> QED
    BY <1>3, <1>9, <2>2 DEF s
<1>11. PICK i \in 1..m : s[i] = 1 /\ s[i - 1] = 0
  BY <1>8, <1>10
<1>12. ds[i] \in F
  BY <1>5
<1>13. ASSUME NEW a, a[c] = ds[i] PROVE ExclusiveUnits(C, F, a)
  <2>1. \A j \in 1..1 : \E k \in 1..m : s[k] = j /\ s[k - 1] = j - 1 /\ a[cs[j]] = ds[k]
    BY <1>5, <1>11, <1>13
  <2> DEFINE Given(xs, zs) ==
               \A j \in 1..1 : \E k \in 1..m : /\ Served(xs, 1, zs, m)[k] = j
                                               /\ Served(xs, 1, zs, m)[k - 1] = j - 1
                                               /\ a[xs[j]] = zs[k]
  <2>2. Given(cs, ds)
    BY <2>1 DEF s
  <2>3. ExclusiveUnits(C, F, a) =
          \E xs \in Orders(C, Size), zs \in Orders(F, DiskSize) : Given(xs, zs)
    BY <1>2 DEF ExclusiveUnits, m
  <2> HIDE DEF Given
  <2> QED
    BY <2>2, <2>3
<1> QED
  BY <1>12, <1>13

\* The claims of one kind that pass the filter and do not compete each find a disk.
LEMMA DisksExist ==
    ASSUME NEW C \in SUBSET Claims, NEW F \in SUBSET Disks, ProcessDisks(C, F),
           \A c, d \in C : c # d => Media[c] # Media[d]
    PROVE  \E b \in [C -> F] : \A a : (\A c \in C : a[c] = b[c]) => AllDisksFound(C, F, a)
<1> DEFINE W(m) == DividePVCAccordingToMediaType(C, m)
           E(m) == DisksOf(F, m)
           Good(c, d) == \A a : a[c] = d => ExclusiveUnits(W(Media[c]), E(Media[c]), a)
<1>1. \A m \in {"ssd", "hdd"} : /\ Cardinality(W(m)) <= Cardinality(E(m))
                                /\ CheckExclusiveResourceMeetsPVCSize(W(m), E(m))
  BY DEF ProcessDisks
<1>2. \A m : /\ W(m) \subseteq C /\ \A c \in C : c \in W(m) <=> Media[c] = m
             /\ E(m) \subseteq F
  BY DEF DividePVCAccordingToMediaType, DisksOf
<1> HIDE DEF W, E
<1>3. ASSUME NEW c \in C PROVE \E d \in F : Good(c, d)
  <2> DEFINE m == Media[c]
  <2>1. m \in {"ssd", "hdd"} /\ c \in Claims
    BY KindAssumption
  <2>2. c \in W(m) /\ \A x \in W(m) : x = c
    BY <1>2
  <2>3. E(m) \in SUBSET Disks
    BY <1>2
  <2>4. 1 <= Cardinality(E(m))
    <3>1. W(m) = {c}
      BY <2>2
    <3>2. Cardinality(W(m)) = 1
      BY <3>1, FS_Singleton
    <3> QED
      BY <1>1, <2>1, <3>2
  <2>5. CheckExclusiveResourceMeetsPVCSize(W(m), E(m))
    BY <1>1, <2>1
  <2> HIDE DEF m
  <2>6. \E d \in E(m) : \A a : a[c] = d => ExclusiveUnits(W(m), E(m), a)
    BY <2>1, <2>2, <2>3, <2>4, <2>5, OneDisk
  <2> QED
    BY <1>2, <2>6 DEF m
<1> DEFINE b == [c \in C |-> CHOOSE d \in F : Good(c, d)]
<1>4. \A c \in C : b[c] \in F /\ Good(c, b[c])
  <2> HIDE DEF Good
  <2> QED
    BY <1>3
<1>5. b \in [C -> F]
  <2> HIDE DEF Good
  <2> QED
    BY <1>4
<1> HIDE DEF b
<1>6. ASSUME NEW a, \A c \in C : a[c] = b[c] PROVE AllDisksFound(C, F, a)
  <2> SUFFICES ASSUME NEW m \in {"ssd", "hdd"} PROVE ExclusiveUnits(W(m), E(m), a)
    BY DEF AllDisksFound, W, E
  <2>1. CASE W(m) = {}
    <3>1. E(m) \in SUBSET Disks
      BY <1>2
    <3> QED
      BY <2>1, <3>1, NoDiskWanted
  <2>2. CASE W(m) # {}
    <3>1. PICK c \in W(m) : TRUE
      BY <2>2
    <3>2. c \in C /\ Media[c] = m
      BY <1>2, <3>1
    <3> QED
      BY <1>4, <1>6, <3>2
  <2> QED
    BY <2>1, <2>2
<1> QED
  BY <1>5, <1>6

\* What is free in a group is a number.
LEMMA FreeAtType ==
    ASSUME NEW nc \in NodeCaches, NEW ps, NEW S, NEW a, NEW c, NEW v \in VGs, NEW C
    PROVE  FreeAt(nc, ps, S, a, c, v, C) \in Int
<1> DEFINE f == [d \in Claims |->
                   IF /\ d \in C \cap OfKind(S, "LVM") /\ a[d] = v
                      /\ DivideLVMPVCs(ps, S)[d] < DivideLVMPVCs(ps, S)[c]
                   THEN Size[d] ELSE 0]
<1>1. f \in [Claims -> 0..MaxSize]
  BY SizeAssumption, MaxSizeAssumption DEF Sizes
<1>2. FreeAt(nc, ps, S, a, c, v, C) = nc.cap[v] - nc.req[v] - Total(f)
  BY DEF FreeAt
<1> HIDE DEF f
<1>3. Total(f) \in Nat
  BY <1>1, TotalType, StorageAssumption
<1> QED
  BY <1>2, <1>3 DEF NodeCaches

\* Where binpack finds room for all claims, spread does too, if at most one claim
\* names no group: the emptiest group has room when binpack's has.
LEMMA SpreadFits ==
    ASSUME NEW nc \in NodeCaches, NEW ps \in Seq(Claims), NEW S \in SUBSET Range(ps),
           S \subseteq Claims, OneOpen(S),
           NEW l \in [OfKind(S, "LVM") -> VGs], Binpack(nc, ps, S, l)
    PROVE  \E m \in [OfKind(S, "LVM") -> VGs] : SpreadOut(nc, ps, S, m)
<1> DEFINE L == OfKind(S, "LVM")
           N == {d \in Claims : VGParam[d] # None}
<1>1. \A c \in L : /\ l[c] \in nc.vgs /\ FreeAt(nc, ps, S, l, c, l[c], Claims) >= Size[c]
                   /\ VGParam[c] # None => l[c] = VGParam[c]
  BY DEF Binpack
<1>2. \A c \in L : \A v, m : FreeAt(nc, ps, S, m, c, v, N) = FreeAt(nc, ps, S, m, c, v, Claims)
  BY SpreadCounts
<1>3. CASE \A c \in L : VGParam[c] # None
  <2>1. SpreadOut(nc, ps, S, l)
    <3> HIDE DEF N
    <3> SUFFICES ASSUME NEW c \in OfKind(S, "LVM")
                 PROVE  /\ l[c] \in nc.vgs /\ FreeAt(nc, ps, S, l, c, l[c], N) >= Size[c]
                        /\ IF VGParam[c] # None THEN l[c] = VGParam[c]
                           ELSE \A v \in nc.vgs : FreeAt(nc, ps, S, l, c, v, N)
                                                    <= FreeAt(nc, ps, S, l, c, l[c], N)
      BY DEF SpreadOut, N
    <3> QED
      BY <1>1, <1>2, <1>3
  <2> QED
    BY <2>1
<1>4. ASSUME NEW o \in L, VGParam[o] = None
      PROVE  \E m \in [L -> VGs] : SpreadOut(nc, ps, S, m)
  <2> DEFINE key == [v \in nc.vgs |-> FreeAt(nc, ps, S, l, o, v, Claims)]
  <2>1. nc.vgs \in SUBSET VGs /\ IsFiniteSet(nc.vgs) /\ nc.vgs # {}
    <3>1. nc.vgs \in SUBSET VGs
      BY DEF NodeCaches
    <3> QED
      BY <1>1, <1>4, <3>1, StorageAssumption, FS_Subset
  <2>2. \A v \in nc.vgs : key[v] \in Int
    BY <2>1, FreeAtType
  <2>3. PICK w \in nc.vgs : \A v \in nc.vgs : key[v] <= key[w]
    <3> HIDE DEF key
    <3> QED
      BY <2>1, <2>2, LargestKey
  <2> DEFINE m == [c \in L |-> IF c = o THEN w ELSE l[c]]
  <2>4. m \in [L -> VGs]
    BY <2>1, <2>3
  <2>5. \A c \in L : c # o => VGParam[c] # None
    BY <1>4 DEF OneOpen
  <2>6. \A c \in L : \A v : FreeAt(nc, ps, S, m, c, v, N) = FreeAt(nc, ps, S, l, c, v, Claims)
    <3> TAKE c \in L
    <3> TAKE v
    <3>1. S \in SUBSET Claims
      OBVIOUS
    <3>2. \A d \in OfKind(S, "LVM") :
            DivideLVMPVCs(ps, S)[d] < DivideLVMPVCs(ps, S)[c] =>
               (d \in Claims /\ m[d] = v <=> d \in Claims /\ l[d] = v)
      BY <1>4, EarlierNamed
    <3> HIDE DEF m
    <3>3. FreeAt(nc, ps, S, m, c, v, Claims) = FreeAt(nc, ps, S, l, c, v, Claims)
      BY <3>1, <3>2, FreeAtFrame
    <3> QED
      BY <1>2, <3>3
  <2>7. SpreadOut(nc, ps, S, m)
    <3> SUFFICES ASSUME NEW c \in L
                 PROVE  /\ m[c] \in nc.vgs /\ FreeAt(nc, ps, S, m, c, m[c], N) >= Size[c]
                        /\ IF VGParam[c] # None THEN m[c] = VGParam[c]
                           ELSE \A v \in nc.vgs : FreeAt(nc, ps, S, m, c, v, N)
                                                    <= FreeAt(nc, ps, S, m, c, m[c], N)
      <4> HIDE DEF m
      <4> QED
        BY DEF SpreadOut
    <3>1. CASE c # o
      <4>1. m[c] = l[c] /\ VGParam[c] # None
        BY <2>5, <3>1
      <4> HIDE DEF m, N, L
      <4> QED
        BY <1>1, <2>6, <4>1
    <3>2. CASE c = o
      <4>1. m[o] = w
        BY <1>4
      <4>2. \A v \in nc.vgs : FreeAt(nc, ps, S, l, o, v, Claims) <= FreeAt(nc, ps, S, l, o, w, Claims)
        BY <2>3
      <4>3. /\ FreeAt(nc, ps, S, l, o, l[o], Claims) \in Int
            /\ FreeAt(nc, ps, S, l, o, w, Claims) \in Int /\ Size[o] \in Int
        <5>1. l[o] \in VGs /\ w \in VGs /\ o \in Claims
          BY <1>4, <2>1, <2>3 DEF OfKind
        <5> QED
          BY <5>1, FreeAtType, SizeAssumption, MaxSizeAssumption DEF Sizes
      <4> HIDE DEF m, N, L, key
      <4>4. FreeAt(nc, ps, S, l, o, w, Claims) >= Size[o]
        BY <1>1, <1>4, <4>2, <4>3
      <4> QED
        BY <1>4, <2>3, <2>6, <3>2, <4>1, <4>2, <4>4
    <3> QED
      BY <3>1, <3>2
  <2> HIDE DEF m
  <2> QED
    BY <2>4, <2>7
<1> QED
  BY <1>3, <1>4

\* A placement of the LVM claims stays one when disks are added to it.
LEMMA PriorityFrame ==
    ASSUME NEW nc, NEW ps, NEW S \in SUBSET Claims, NEW a, NEW b,
           \A d \in OfKind(S, "LVM") : a[d] = b[d], ProcessLVMPVCPriority(nc, ps, S, b)
    PROVE  ProcessLVMPVCPriority(nc, ps, S, a)
<1>1. \A c, v, C : FreeAt(nc, ps, S, a, c, v, C) = FreeAt(nc, ps, S, b, c, v, C)
  <2> TAKE c, v, C
  <2> QED
    BY FreeAtFrame
<1>2. CASE Spread
  <2>1. SpreadOut(nc, ps, S, b)
    BY <1>2 DEF ProcessLVMPVCPriority
  <2>2. SpreadOut(nc, ps, S, a)
    BY <1>1, <2>1 DEF SpreadOut
  <2> QED
    BY <1>2, <2>2 DEF ProcessLVMPVCPriority
<1>3. CASE ~Spread
  <2>1. Binpack(nc, ps, S, b)
    BY <1>3 DEF ProcessLVMPVCPriority
  <2>2. Binpack(nc, ps, S, a)
    BY <1>1, <2>1 DEF Binpack
  <2> QED
    BY <1>3, <2>2 DEF ProcessLVMPVCPriority
<1> QED
  BY <1>2, <1>3

\* A request finds a place for every claim that passed the filter.
LEMMA PlacementExists ==
    ASSUME NEW nc \in NodeCaches, NEW ps \in Seq(Claims), NEW S \in SUBSET Range(ps),
           S \subseteq Claims, Spread => OneOpen(S),
           CapacityPredicate(nc, ps, S), NoDiskRivals(S)
    PROVE  Placements(nc, ps, S) # {}
<1> DEFINE L == OfKind(S, "LVM")
           M == OfKind(S, "MountPoint")
           D == OfKind(S, "Device")
<1>1. PICK l \in [L -> VGs] : ProcessLVMPVCPriority(nc, ps, S, l)
  <2>1. PICK b \in [L -> VGs] : Binpack(nc, ps, S, b)
    BY DEF CapacityPredicate, AllocateLVMVolume, ProcessLVMPVCPredicate
  <2>2. Spread => \E l \in [L -> VGs] : SpreadOut(nc, ps, S, l)
    BY <2>1, SpreadFits
  <2> QED
    BY <2>1, <2>2 DEF ProcessLVMPVCPriority
<1>2. /\ M \in SUBSET Claims /\ D \in SUBSET Claims /\ L \subseteq S
      /\ GetFreeMP(nc) \in SUBSET Disks /\ GetFreeDevice(nc) \in SUBSET Disks
      /\ \A c, d \in M : c # d => Media[c] # Media[d]
      /\ \A c, d \in D : c # d => Media[c] # Media[d]
  BY DEF OfKind, GetFreeMP, GetFreeDevice, NodeCaches, NoDiskRivals
<1>3. \A c \in S : \/ c \in L /\ c \notin M /\ c \notin D /\ Kind[c] = "LVM"
                   \/ c \notin L /\ c \in M /\ c \notin D /\ Kind[c] # "LVM"
                   \/ c \notin L /\ c \notin M /\ c \in D /\ Kind[c] # "LVM"
  BY KindAssumption DEF OfKind
<1>4. ProcessDisks(M, GetFreeMP(nc)) /\ ProcessDisks(D, GetFreeDevice(nc))
  BY DEF CapacityPredicate, AllocateMountPointVolume, ProcessMPPVC, AllocateDeviceVolume,
         ProcessDevicePVC
<1>5. M \subseteq S /\ D \subseteq S /\ L = OfKind(S, "LVM")
  BY DEF OfKind
<1> HIDE DEF L, M, D
<1>6. PICK x \in [M -> GetFreeMP(nc)] :
        \A a : (\A c \in M : a[c] = x[c]) => AllDisksFound(M, GetFreeMP(nc), a)
  BY <1>2, <1>4, DisksExist
<1>7. PICK y \in [D -> GetFreeDevice(nc)] :
        \A a : (\A c \in D : a[c] = y[c]) => AllDisksFound(D, GetFreeDevice(nc), a)
  BY <1>2, <1>4, DisksExist
<1> DEFINE a == [c \in S |-> IF c \in L THEN l[c] ELSE IF c \in M THEN x[c] ELSE y[c]]
<1>8. /\ \A c \in L : a[c] = l[c]
      /\ \A c \in M : a[c] = x[c]
      /\ \A c \in D : a[c] = y[c]
  BY <1>2, <1>3, <1>5
<1>9. a \in [S -> VGs \cup Disks] /\ \A c \in S : a[c] \in VGs <=> Kind[c] = "LVM"
  BY <1>2, <1>3, StorageAssumption
<1> HIDE DEF a
<1>10. ProcessLVMPVCPriority(nc, ps, S, a)
  BY <1>1, <1>5, <1>8, PriorityFrame
<1>11. ScoreMountPointVolume(nc, S, a) /\ ScoreDeviceVolume(nc, S, a)
  BY <1>6, <1>7, <1>8 DEF ScoreMountPointVolume, ScoreDeviceVolume, M, D
<1>12. a \in Placements(nc, ps, S)
  BY <1>9, <1>10, <1>11 DEF Placements, ScoreLVMVolume
<1> QED
  BY <1>12

\* FilterIsSound holds in every state in which the node caches are well typed.
LEMMA FilterFits ==
    ASSUME PlacesCounted, cache \in [Nodes -> NodeCaches]
    PROVE  FilterIsSound
<1> SUFFICES ASSUME NEW p \in Pods, NEW n \in Nodes, NoDiskRivals(Unbound(p)), Fits(p, n)
             PROVE  /\ AllocatedUnits(cache[n], n, PodClaims[p], Unbound(p)) # {}
                    /\ \A units \in AllocatedUnits(cache[n], n, PodClaims[p], Unbound(p)) :
                          ~Assume(cache[n], units).err
  BY DEF FilterIsSound
<1> DEFINE ps == PodClaims[p]
           S == Unbound(p)
           nc == cache[n]
           t == DivideLVMPVCs(ps, S)
<1>1. /\ ps \in Seq(Claims) /\ S \in SUBSET Range(ps) /\ S \subseteq Claims
      /\ nc \in NodeCaches /\ CapacityPredicate(nc, ps, S) /\ (Spread => OneOpen(S))
  <2>1. ps \in Seq(Claims)
    BY PodAssumption
  <2>2. Range(ps) \subseteq Claims
    BY <2>1 DEF Range
  <2> QED
    BY <2>1, <2>2 DEF Unbound, Mounts, Fits, PlacesCounted, OneOpen, OfKind
<1> HIDE DEF S, nc, ps
<1>2. PICK a : a \in Placements(nc, ps, S)
  BY <1>1, PlacementExists DEF S
<1>3. PICK s : s \in Orders(S, t)
  <2>1. t \in [S -> Nat]
    BY <1>1, TurnsDiffer
  <2>2. IsFiniteSet(S)
    BY <1>1, StorageAssumption, FS_Subset
  <2>3. \A x \in S : t[x] \in Int
    BY <2>1
  <2> HIDE DEF t
  <2> QED
    BY <2>2, <2>3, OrderExists
<1>4. AllocatedUnits(nc, n, ps, S) # {}
  <2>1. [i \in 1..Cardinality(S) |-> Unit(s[i], n, a[s[i]])] \in AllocatedUnits(nc, n, ps, S)
    BY <1>2, <1>3 DEF AllocatedUnits
  <2> QED
    BY <2>1
<1>5. ASSUME NEW units \in AllocatedUnits(nc, n, ps, S)
      PROVE  ~Assume(nc, units).err
  <2>1. PICK b \in Placements(nc, ps, S), r \in Orders(S, DivideLVMPVCs(ps, S)) :
          units = [i \in 1..Cardinality(S) |-> Unit(r[i], n, b[r[i]])]
    BY DEF AllocatedUnits
  <2>2. Assume(nc, units) = [nc |-> After(nc, n, b, S), err |-> FALSE]
    BY <1>1, <2>1, AssumeAccepts
  <2> QED
    BY <2>2
<1> QED
  BY <1>4, <1>5 DEF S, nc, ps

----------------------------------------------------------------------------
(* Types *)

\* A unit is charged to a node cache that stays well typed.
LEMMA AssumeUnitType ==
    ASSUME NEW acc \in [nc : NodeCaches, err : BOOLEAN], NEW c \in Claims, NEW n \in Nodes,
           NEW w \in Fitting(c)
    PROVE  AssumeUnit(Unit(c, n, w), acc) \in [nc : NodeCaches, err : BOOLEAN]
<1> DEFINE u == Unit(c, n, w)
<1>1. u.claim = c /\ u.where = w /\ u \in Places
  BY DEF Unit, Places, Fitting
<1>2. acc.nc \in NodeCaches /\ Size[c] \in Int
  BY SizeAssumption, MaxSizeAssumption DEF Sizes
<1> HIDE DEF u
<1>3. CASE Kind[c] = "LVM"
  <2>1. w \in VGs
    BY <1>3 DEF Fitting
  <2> DEFINE z == [acc.nc EXCEPT !.req[u.where] = @ + Size[u.claim], !.records[u.claim] = u]
  <2>2. z \in NodeCaches
    <3>1. /\ [acc.nc.req EXCEPT ![w] = @ + Size[c]] \in [VGs -> Int]
          /\ [acc.nc.records EXCEPT ![c] = u] \in [Claims -> Places \cup {None}]
      BY <1>1, <1>2, <2>1 DEF NodeCaches
    <3> QED
      BY <1>1, <1>2, <3>1 DEF NodeCaches
  <2>3. AssumeUnit(u, acc) = AssumeLVMUnit(u, acc)
    BY <1>1, <1>3 DEF AssumeUnit
  <2>4. \/ AssumeLVMUnit(u, acc) = [acc EXCEPT !.err = TRUE]
        \/ AssumeLVMUnit(u, acc) = [acc EXCEPT !.err = FALSE]
        \/ AssumeLVMUnit(u, acc) = [nc |-> z, err |-> FALSE]
    BY Zenon DEF AssumeLVMUnit
  <2>5. /\ [acc EXCEPT !.err = TRUE] \in [nc : NodeCaches, err : BOOLEAN]
        /\ [acc EXCEPT !.err = FALSE] \in [nc : NodeCaches, err : BOOLEAN]
        /\ [nc |-> z, err |-> FALSE] \in [nc : NodeCaches, err : BOOLEAN]
    <3> HIDE DEF z
    <3> QED
      BY <2>2
  <2> HIDE DEF z
  <2> QED
    BY <2>3, <2>4, <2>5, Zenon DEF u
<1>4. CASE Kind[c] # "LVM"
  <2>1. w \in Disks
    BY <1>4 DEF Fitting
  <2>2. AssumeUnit(u, acc) = TakeDisk(u, acc)
    BY <1>1, <1>4, KindAssumption DEF AssumeUnit, AssumeDeviceUnit, AssumeMountPointUnit
  <2> DEFINE z == [acc.nc EXCEPT !.disks = @ \cup {u.where}, !.held = @ \cup {u.where},
                                 !.records[u.claim] = u]
  <2>3. z \in NodeCaches
    <3>1. /\ acc.nc.disks \cup {w} \in SUBSET Disks /\ acc.nc.held \cup {w} \in SUBSET Disks
          /\ [acc.nc.records EXCEPT ![c] = u] \in [Claims -> Places \cup {None}]
      BY <1>1, <1>2, <2>1 DEF NodeCaches
    <3> QED
      BY <1>1, <1>2, <3>1 DEF NodeCaches
  <2>4. \/ TakeDisk(u, acc) = [acc EXCEPT !.err = TRUE]
        \/ TakeDisk(u, acc) = [nc |-> z, err |-> FALSE]
    BY Zenon DEF TakeDisk
  <2>5. /\ [acc EXCEPT !.err = TRUE] \in [nc : NodeCaches, err : BOOLEAN]
        /\ [nc |-> z, err |-> FALSE] \in [nc : NodeCaches, err : BOOLEAN]
    <3> HIDE DEF z
    <3> QED
      BY <2>3
  <2> HIDE DEF z
  <2> QED
    BY <2>2, <2>4, <2>5, Zenon DEF u
<1> QED
  BY <1>3, <1>4

\* So is a whole request, whatever the strategy that placed it.
LEMMA AssumeType ==
    ASSUME NEW nc \in NodeCaches, NEW n \in Nodes, NEW S \in SUBSET Claims, NEW key,
           NEW s \in Orders(S, key), NEW a, \A c \in S : a[c] \in Fitting(c),
           NEW units, units = [i \in 1..Cardinality(S) |-> Unit(s[i], n, a[s[i]])]
    PROVE  Assume(nc, units) \in [nc : NodeCaches, err : BOOLEAN]
<1> DEFINE k == Cardinality(S)
           after == Assuming(nc, units)
           T == {i \in Nat : i <= k => after[i] \in [nc : NodeCaches, err : BOOLEAN]}
<1>1. IsFiniteSet(S) /\ k \in Nat
  BY StorageAssumption, FS_Subset, FS_CardinalityType
<1>2. Len(units) = k
  BY <1>1
<1>3. /\ after[0] = [nc |-> nc, err |-> FALSE]
      /\ \A i \in 1..k : after[i] = AssumeUnit(units[i], after[i - 1])
  BY <1>1, <1>2, AssumingRecursion
<1>4. s \in [1..k -> S]
  BY DEF Orders
<1> HIDE DEF after
<1>5. 0 \in T
  <2>1. [nc |-> nc, err |-> FALSE] \in [nc : NodeCaches, err : BOOLEAN]
    OBVIOUS
  <2> QED
    BY <1>3, <2>1
<1>6. ASSUME NEW i \in Nat, i \in T PROVE i + 1 \in T
  <2> SUFFICES ASSUME i + 1 <= k PROVE after[i + 1] \in [nc : NodeCaches, err : BOOLEAN]
    OBVIOUS
  <2>1. i + 1 \in 1..k /\ (i + 1) - 1 = i /\ i <= k
    BY <1>1
  <2>2. after[i] \in [nc : NodeCaches, err : BOOLEAN]
    BY <1>6, <2>1
  <2> DEFINE c == s[i + 1]
  <2>3. c \in Claims /\ a[c] \in Fitting(c) /\ units[i + 1] = Unit(c, n, a[c])
    BY <1>4, <2>1
  <2>4. after[i + 1] = AssumeUnit(units[i + 1], after[i])
    BY <1>3, <2>1
  <2> HIDE DEF c
  <2> QED
    BY <2>2, <2>3, <2>4, AssumeUnitType
<1>7. k \in T
  <2>1. \A i \in Nat : i \in T => i + 1 \in T
    BY <1>6
  <2> HIDE DEF T
  <2>2. Nat \subseteq T
    BY <1>5, <2>1, NatInductionSet
  <2> QED
    BY <1>1, <2>2
<1> QED
  BY <1>1, <1>2, <1>7 DEF Assume, after

\* The amounts that UpdateVGs charges are numbers.
LEMMA AmountsType ==
    ASSUME NEW nc \in NodeCaches, NEW v
    PROVE  SizeOn(nc, v) \in Nat /\ Unrecorded(nc, v) \in Nat
<1> DEFINE f == [c \in Claims |-> IF nc.localPVs[c] # None /\ nc.localPVs[c].where = v
                                  THEN nc.localPVs[c].size ELSE 0]
           g == [p \in Pods |-> IF nc.inline[p] = "unrecorded" /\ InlineVG[p] = v
                                THEN InlineSize[p] ELSE 0]
<1>1. \A c \in Claims : nc.localPVs[c] # None => nc.localPVs[c].size \in 0..MaxSize
  BY DEF NodeCaches, Volumes, Sizes
<1>2. f \in [Claims -> 0..MaxSize] /\ g \in [Pods -> 0..MaxSize]
  BY <1>1, PodAssumption, MaxSizeAssumption DEF Sizes
<1>3. SizeOn(nc, v) = Total(f) /\ Unrecorded(nc, v) = Total(g)
  BY DEF SizeOn, Unrecorded
<1> HIDE DEF f, g
<1> QED
  BY <1>2, <1>3, TotalType, StorageAssumption, PodAssumption

\* A new node cache is well typed, and so is one made from a status.
LEMMA NewType ==
    /\ NewNodeCache \in NodeCaches
    /\ \A st \in Statuses : NewNodeCacheFromStorage(st) \in NodeCaches
<1>1. NewNodeCache \in NodeCaches
  BY DEF NewNodeCache, NodeCaches
<1> QED
  BY <1>1 DEF NewNodeCacheFromStorage, NodeCaches, Statuses

\* UpdateNodeInfo keeps a node cache well typed.
LEMMA UpdateNodeInfoType ==
    ASSUME NEW nc \in NodeCaches, NEW st \in Statuses
    PROVE  UpdateNodeInfo(nc, st) \in NodeCaches
<1> DEFINE x == UpdateVGs(nc, st)
           q == [v \in VGs |-> (IF v \in nc.vgs THEN nc.req[v] ELSE SizeOn(nc, v))
                              + Unrecorded(nc, v)]
<1>1. q \in [VGs -> Int]
  <2>1. \A v \in VGs : nc.req[v] \in Int /\ SizeOn(nc, v) \in Int /\ Unrecorded(nc, v) \in Int
    BY AmountsType DEF NodeCaches
  <2> QED
    BY <2>1
<1>2. x = [nc EXCEPT !.vgs = VGs, !.cap = st.cap, !.req = q]
  BY DEF UpdateVGs
<1>3. st.cap \in [VGs -> Nat] /\ st.disks \subseteq Disks
  BY DEF Statuses
<1> HIDE DEF x, q
<1>4. x \in NodeCaches
  BY <1>1, <1>2, <1>3 DEF NodeCaches
<1>5. UpdateDisks(x, st) \in NodeCaches
  BY <1>3, <1>4 DEF UpdateDisks, NodeCaches
<1> QED
  BY <1>5 DEF UpdateNodeInfo, x

\* So does a charge.
LEMMA ChargeType ==
    ASSUME NEW nc \in NodeCaches, NEW v, NEW size \in Int
    PROVE  Charge(nc, v, size) \in NodeCaches
  BY DEF Charge, NodeCaches

\* The handlers of volumes keep a node cache well typed.
LEMMA VolumeHandlersType ==
    ASSUME NEW nc \in NodeCaches, NEW c \in Claims, NEW vol \in Volumes, NEW old \in Volumes
    PROVE  /\ AddLVM(nc, c, vol) \in NodeCaches /\ UpdateLVM(nc, c, old, vol) \in NodeCaches
           /\ RemoveLVM(nc, c, vol) \in NodeCaches
           /\ AddDisk(nc, c, vol) \in NodeCaches /\ RemoveDisk(nc, c, vol) \in NodeCaches
<1>1. vol.size \in Int /\ old.size \in Int /\ 0 - vol.size \in Int /\ vol.size - old.size \in Int
  BY MaxSizeAssumption DEF Volumes, Sizes
<1>2. ASSUME NEW x \in NodeCaches, NEW w \in Volumes \cup {None}
      PROVE  [x EXCEPT !.localPVs[c] = w] \in NodeCaches
  BY DEF NodeCaches
<1>3. AddLVM(nc, c, vol) \in NodeCaches
  BY <1>1, <1>2, ChargeType DEF AddLVM
<1>4. UpdateLVM(nc, c, old, vol) \in NodeCaches
  BY <1>1, <1>2, ChargeType DEF UpdateLVM
<1>5. RemoveLVM(nc, c, vol) \in NodeCaches
  BY <1>1, <1>2, ChargeType DEF RemoveLVM
<1>6. AddDisk(nc, c, vol) \in NodeCaches
  BY DEF AddDisk, AddLocalDevice, AddLocalMountPoint, NodeCaches
<1>7. RemoveDisk(nc, c, vol) \in NodeCaches
  BY DEF RemoveDisk, RemoveLocalDevice, RemoveLocalMountPoint, NodeCaches
<1> QED
  BY <1>3, <1>4, <1>5, <1>6, <1>7

\* The node cache that a handler creates when it is missing is well typed.
LEMMA GotType ==
    ASSUME cache \in [Nodes -> NodeCaches], NEW n \in Nodes
    PROVE  Got(n) \in NodeCaches
<1>1. cache[n] \in NodeCaches
  OBVIOUS
<1> QED
  BY <1>1 DEF Got, NodeCaches

\* The handlers of inline volumes keep a node cache well typed.
LEMMA InlineHandlersType ==
    ASSUME NEW nc \in NodeCaches, NEW p \in Pods, NEW n
    PROVE  /\ AddPodInlineVolumeInfo(nc, p, n) \in NodeCaches
           /\ DeletePodInlineVolumeInfo(nc, p) \in NodeCaches
<1>1. InlineSize[p] \in Int /\ 0 - InlineSize[p] \in Int
  BY PodAssumption, MaxSizeAssumption DEF Sizes
<1>2. ASSUME NEW x \in NodeCaches, NEW w \in {"none", "recorded", "unrecorded"}
      PROVE  [x EXCEPT !.inline[p] = w] \in NodeCaches
  BY DEF NodeCaches
<1>3. AddPodInlineVolumeInfo(nc, p, n) \in NodeCaches
  BY <1>1, <1>2, ChargeType DEF AddPodInlineVolumeInfo
<1>4. DeletePodInlineVolumeInfo(nc, p) \in NodeCaches
  BY <1>1, <1>2, ChargeType DEF DeletePodInlineVolumeInfo
<1> QED
  BY <1>3, <1>4

\* The claims a pod mounts are claims.
LEMMA MountsAreClaims ==
    ASSUME NEW p \in Pods
    PROVE  /\ PodClaims[p] \in Seq(Claims) /\ Mounts(p) = Range(PodClaims[p])
           /\ Mounts(p) \subseteq Claims
<1>1. PodClaims[p] \in Seq(Claims)
  BY PodAssumption
<1> QED
  BY <1>1 DEF Mounts, Range

\* What a request for claim c does if it is served or fails: the claims S of the pod
\* of c are placed as a says.
LEMMA Placed ==
    ASSUME TypeOK, NEW c \in Claims, SchedulingPVC(c)
    PROVE  LET n == selected[c]
               S == Unbound(pvcPod[c])
               ps == PodClaims[pvcPod[c]]
           IN  /\ n \in Nodes /\ cache[n] \in NodeCaches /\ pvcPod[c] \in Pods
               /\ ps \in Seq(Claims) /\ S \in SUBSET Range(ps) /\ S \subseteq Claims
               /\ \E a \in Placements(cache[n], ps, S), s \in Orders(S, DivideLVMPVCs(ps, S)) :
                     LET r == Assume(cache[n],
                                     [i \in 1..Cardinality(S) |-> Unit(s[i], n, a[s[i]])])
                     IN  /\ \A d \in S : a[d] \in Fitting(d)
                         /\ r \in [nc : NodeCaches, err : BOOLEAN]
                         /\ cache' = [cache EXCEPT ![n] = r.nc]
                         /\ IF ~r.err
                            THEN /\ binding' = [d \in Claims |->
                                       IF d \in S THEN Unit(d, n, a[d]) ELSE binding[d]]
                                 /\ Answered(c, binding'[c])
                            ELSE UNCHANGED <<binding, answer>>
<1> DEFINE n == selected[c]
           S == Unbound(pvcPod[c])
           ps == PodClaims[pvcPod[c]]
<1>1. n \in Nodes /\ cache[n] \in NodeCaches /\ pvcPod[c] \in Pods
  BY DEF TypeOK, SchedulingPVC, CreateVolume, PodKnown
<1>2. ps \in Seq(Claims) /\ S \in SUBSET Range(ps) /\ S \subseteq Claims
  BY <1>1, MountsAreClaims DEF Unbound
<1>3. PICK units \in AllocatedUnits(cache[n], n, ps, S) :
        LET r == Assume(cache[n], units)
        IN  /\ cache' = [cache EXCEPT ![n] = r.nc]
            /\ IF ~r.err
               THEN /\ binding' = [d \in Claims |->
                          IF d \in S THEN CHOOSE u \in Range(units) : u.claim = d ELSE binding[d]]
                    /\ Answered(c, binding'[c])
               ELSE UNCHANGED <<binding, answer>>
  BY Zenon DEF SchedulingPVC
<1> HIDE DEF n, S, ps
<1>4. PICK a \in Placements(cache[n], ps, S), s \in Orders(S, DivideLVMPVCs(ps, S)) :
        units = [i \in 1..Cardinality(S) |-> Unit(s[i], n, a[s[i]])]
  BY DEF AllocatedUnits
<1>5. \A d \in S : a[d] \in Fitting(d)
  BY DEF Placements, Fitting
<1>6. Assume(cache[n], units) \in [nc : NodeCaches, err : BOOLEAN]
  BY <1>1, <1>2, <1>4, <1>5, AssumeType
<1>7. \A d \in S : (CHOOSE u \in Range(units) : u.claim = d) = Unit(d, n, a[d])
  <2> DEFINE key == DivideLVMPVCs(ps, S)
             k == Cardinality(S)
  <2>1. S \in SUBSET Claims /\ s \in Orders(S, key)
    BY <1>2
  <2> HIDE DEF key
  <2> TAKE d \in S
  <2>2. IsFiniteSet(S) /\ k \in Nat
    BY <2>1, StorageAssumption, FS_Subset, FS_CardinalityType
  <2>3. PICK i \in 1..k : s[i] = d
    BY <2>1, <2>2, OrderIsOnto
  <2>4. \A u : u \in Range(units) <=> \E j \in 1..k : u = Unit(s[j], n, a[s[j]])
    BY <1>4 DEF Range
  <2> HIDE DEF k
  <2>5. Unit(d, n, a[d]) \in Range(units) /\ Unit(d, n, a[d]).claim = d
    BY <2>3, <2>4 DEF Unit
  <2>6. \A u \in Range(units) : u.claim = d => u = Unit(d, n, a[d])
    BY <2>4 DEF Unit
  <2> QED
    BY <2>5, <2>6
<1> DEFINE r == Assume(cache[n], units)
<1>8. /\ cache' = [cache EXCEPT ![n] = r.nc]
      /\ IF ~r.err
         THEN /\ binding' = [d \in Claims |-> IF d \in S THEN Unit(d, n, a[d]) ELSE binding[d]]
              /\ Answered(c, binding'[c])
         ELSE UNCHANGED <<binding, answer>>
  <2>1. [d \in Claims |-> IF d \in S THEN CHOOSE u \in Range(units) : u.claim = d ELSE binding[d]]
          = [d \in Claims |-> IF d \in S THEN Unit(d, n, a[d]) ELSE binding[d]]
    BY <1>7
  <2> HIDE DEF r
  <2> QED
    BY <1>3, <2>1, Zenon DEF r
<1>9. \E b \in Placements(cache[n], ps, S), t \in Orders(S, DivideLVMPVCs(ps, S)) :
         LET q == Assume(cache[n], [i \in 1..Cardinality(S) |-> Unit(t[i], n, b[t[i]])])
         IN  /\ \A d \in S : b[d] \in Fitting(d)
             /\ q \in [nc : NodeCaches, err : BOOLEAN]
             /\ cache' = [cache EXCEPT ![n] = q.nc]
             /\ IF ~q.err
                THEN /\ binding' = [d \in Claims |->
                           IF d \in S THEN Unit(d, n, b[d]) ELSE binding[d]]
                     /\ Answered(c, binding'[c])
                ELSE UNCHANGED <<binding, answer>>
  BY <1>4, <1>5, <1>6, <1>8, Zenon
<1> QED
  BY <1>1, <1>2, <1>9, Zenon DEF n, S, ps

\* The initial state is well typed.
LEMMA InitType == Init => TypeOK
  BY NewType, StatusAssumption DEF Init, TypeOK, Statuses

\* The steps of a claim keep the types.
LEMMA ClaimStepType ==
    ASSUME TypeOK, NEW c \in Claims, NextClaim(c)
    PROVE  TypeOK'
<1> USE DEF api, extender, seen
<1>1. CASE OnPVAdd(c)
  <2>1. CASE pv[c].phase = "pending"
    BY <1>1, <2>1 DEF TypeOK, OnPVAdd, SeePV, PVHandled
  <2>2. CASE pv[c].phase # "pending"
    <3> DEFINE n == pv[c].node
               nc == IF Kind[c] = "LVM" THEN AddLVM(Got(n), c, pv[c])
                     ELSE AddDisk(Got(n), c, pv[c])
    <3>1. pv[c] \in Volumes /\ n \in Nodes /\ Unit(c, n, pv[c].where) \in Places
      BY <1>1 DEF TypeOK, OnPVAdd, Volumes, Places, Unit
    <3>2. Got(n) \in NodeCaches
      BY <3>1, GotType DEF TypeOK
    <3>3. nc \in NodeCaches
      BY <3>1, <3>2, VolumeHandlersType
    <3>4. /\ cache' = [cache EXCEPT ![n] = nc]
          /\ binding' = [binding EXCEPT ![c] = Unit(c, n, pv[c].where)]
      BY <1>1, <2>2 DEF OnPVAdd
    <3> HIDE DEF nc
    <3> QED
      BY <1>1, <3>1, <3>3, <3>4 DEF TypeOK, OnPVAdd, SeePV, PVHandled
  <2> QED
    BY <2>1, <2>2
<1>2. CASE OnPVUpdate(c)
  <2> DEFINE n == pv[c].node
             nc == IF Kind[c] = "LVM" THEN UpdateLVM(cache[n], c, seenPV[c], pv[c])
                   ELSE AddDisk(cache[n], c, pv[c])
  <2>1. pv[c] \in Volumes /\ seenPV[c] \in Volumes /\ n \in Nodes /\ cache[n] \in NodeCaches
    BY <1>2 DEF TypeOK, OnPVUpdate, Volumes
  <2>2. nc \in NodeCaches
    BY <2>1, VolumeHandlersType
  <2>3. UNCHANGED cache \/ cache' = [cache EXCEPT ![n] = nc]
    BY <1>2 DEF OnPVUpdate
  <2> HIDE DEF nc
  <2> QED
    BY <1>2, <2>1, <2>2, <2>3 DEF TypeOK, OnPVUpdate, SeePV, PVHandled
<1>3. CASE OnPVDelete(c)
  <2> DEFINE vol == seenPV[c]
             n == vol.node
             nc == IF Kind[c] = "LVM" THEN RemoveLVM(cache[n], c, vol)
                   ELSE RemoveDisk(cache[n], c, vol)
  <2>1. vol \in Volumes /\ n \in Nodes /\ cache[n] \in NodeCaches
    BY <1>3 DEF TypeOK, OnPVDelete, Volumes
  <2>2. nc \in NodeCaches
    BY <2>1, VolumeHandlersType
  <2>3. \/ UNCHANGED <<cache, binding>>
        \/ cache' = [cache EXCEPT ![n] = nc] /\ binding' = [binding EXCEPT ![c] = None]
    BY <1>3 DEF OnPVDelete
  <2> HIDE DEF nc
  <2> QED
    BY <1>3, <2>1, <2>2, <2>3 DEF TypeOK, OnPVDelete, SeePV, PVHandled
<1>4. CASE OnPvcUpdate(c)
  BY <1>4 DEF TypeOK, OnPvcUpdate, PutPvc
<1>5. CASE SchedulingPVC(c)
  <2> DEFINE n == selected[c]
             S == Unbound(pvcPod[c])
  <2>1. PICK nc, a :
          /\ nc \in NodeCaches
          /\ n \in Nodes /\ S \subseteq Claims
          /\ \A d \in S : a[d] \in Fitting(d)
          /\ cache' = [cache EXCEPT ![n] = nc]
          /\ \/ /\ binding' = [d \in Claims |->
                                 IF d \in S THEN Unit(d, n, a[d]) ELSE binding[d]]
                /\ Answered(c, binding'[c])
             \/ UNCHANGED <<binding, answer>>
    <3>1. n \in Nodes /\ S \subseteq Claims
      BY <1>5, Placed
    <3>2. PICK a, r : /\ \A d \in S : a[d] \in Fitting(d)
                      /\ r \in [nc : NodeCaches, err : BOOLEAN]
                      /\ cache' = [cache EXCEPT ![n] = r.nc]
                      /\ IF ~r.err
                         THEN /\ binding' = [d \in Claims |->
                                    IF d \in S THEN Unit(d, n, a[d]) ELSE binding[d]]
                              /\ Answered(c, binding'[c])
                         ELSE UNCHANGED <<binding, answer>>
      BY <1>5, Placed, Zenon
    <3>3. r.nc \in NodeCaches
      BY <3>2
    <3> QED
      BY <3>1, <3>2, <3>3
  <2>2. \A d \in S : Unit(d, n, a[d]) \in Places
    BY <2>1 DEF Unit, Places, Fitting
  <2>3. binding' \in [Claims -> Places \cup {None}]
    BY <2>1, <2>2 DEF TypeOK
  <2>4. answer' \in [Claims -> Answers \cup {None}]
    <3>1. CASE UNCHANGED answer
      BY <3>1 DEF TypeOK
    <3>2. CASE Answered(c, binding'[c]) /\ binding' = [d \in Claims |->
                                 IF d \in S THEN Unit(d, n, a[d]) ELSE binding[d]]
      <4>1. c \in S
        <5>1. claim[c] # "bound" /\ c \in Mounts(pvcPod[c])
          BY <1>5 DEF TypeOK, SchedulingPVC, CreateVolume, PodKnown
        <5> QED
          BY <5>1 DEF Unbound
      <4> QED
        BY <2>1, <2>2, <3>2, <4>1 DEF TypeOK, Answered, Answers
    <3> QED
      BY <2>1, <3>1, <3>2
  <2> HIDE DEF n, S
  <2> QED
    BY <1>5, <2>1, <2>3, <2>4 DEF TypeOK, SchedulingPVC
<1>6. CASE SchedulingPVCAgain(c)
  BY <1>6 DEF TypeOK, SchedulingPVCAgain, CreateVolume, Answered, Answers
<1>7. CASE CreateVolumeNamed(c)
  <2>1. Unit(c, selected[c], VGParam[c]) \in Places
    BY <1>7, SizeAssumption DEF TypeOK, CreateVolumeNamed, CreateVolume, Asks, Unit, Places
  <2> QED
    BY <1>7, <2>1 DEF TypeOK, CreateVolumeNamed, CreateVolume, Answered, Answers
<1>8. CASE VolumeCreated(c)
  <2> DEFINE vol == [phase |-> "pending", node |-> answer[c].target,
                     where |-> answer[c].unit.where, size |-> Size[c]]
  <2>1. vol \in Volumes
    BY <1>8, SizeAssumption DEF TypeOK, VolumeCreated, Volumes, Answers, Places
  <2>2. pv' = [pv EXCEPT ![c] = vol] /\ pv'[c] \in Volumes
    BY <1>8, <2>1 DEF TypeOK, VolumeCreated
  <2> HIDE DEF vol
  <2> QED
    BY NoneAssumption, <1>8, <2>1, <2>2 DEF TypeOK, VolumeCreated
<1>9. CASE VolumeFailed(c)
  BY <1>9 DEF TypeOK, VolumeFailed
<1>10. CASE BindPV(c)
  <2>1. [pv[c] EXCEPT !.phase = "bound"] \in Volumes
    BY <1>10 DEF TypeOK, BindPV, Volumes
  <2>2. pv' = [pv EXCEPT ![c] = [pv[c] EXCEPT !.phase = "bound"]]
    BY <1>10 DEF BindPV
  <2> QED
    BY NoneAssumption, <1>10, <2>1, <2>2 DEF TypeOK, BindPV
<1>11. CASE ExpandPV(c)
  <2>1. [pv[c] EXCEPT !.size = pv[c].size + 1] \in Volumes
    BY <1>11, MaxSizeAssumption DEF TypeOK, ExpandPV, Volumes, Sizes
  <2>2. pv' = [pv EXCEPT ![c] = [pv[c] EXCEPT !.size = pv[c].size + 1]]
    BY <1>11 DEF ExpandPV
  <2> QED
    BY NoneAssumption, <1>11, <2>1, <2>2 DEF TypeOK, ExpandPV
<1>12. CASE DeleteClaim(c)
  BY <1>12 DEF TypeOK, DeleteClaim
<1>13. CASE RemoveSelectedNode(c)
  BY <1>13 DEF TypeOK, RemoveSelectedNode
<1> QED
  BY <1>1, <1>2, <1>3, <1>4, <1>5, <1>6, <1>7, <1>8, <1>9, <1>10, <1>11, <1>12, <1>13
  DEF NextClaim

\* The mapping of pods and claims keeps its type.
LEMMA MappingType ==
    ASSUME TypeOK, NEW p \in Pods, PutPod(p) \/ ForgetPod(p)
    PROVE  /\ info' \in [Pods -> (SUBSET Claims) \cup {None}]
           /\ pvcPod' \in [Claims -> Pods \cup {None}]
           /\ \A c \in Claims : pvcPod'[c] # None => c \in Mounts(pvcPod'[c])
<1>1. Mounts(p) \subseteq Claims
  BY MountsAreClaims
<1>2. CASE PutPod(p)
  <2>1. {c \in Mounts(p) : selected[c] = None} \in SUBSET Claims
    BY <1>1
  <2> QED
    BY <1>2, <2>1 DEF TypeOK, PutPod
<1>3. CASE ForgetPod(p)
  BY <1>3 DEF TypeOK, ForgetPod
<1> QED
  BY <1>2, <1>3

\* The steps of a pod keep the types.
LEMMA PodStepType ==
    ASSUME TypeOK, NEW p \in Pods, NextPod(p)
    PROVE  TypeOK'
<1> USE DEF api, extender, seen
<1>1. CASE CreatePod(p)
  <2>1. Mounts(p) \subseteq Claims
    BY MountsAreClaims
  <2> QED
    BY <1>1, <2>1 DEF TypeOK, CreatePod
<1>2. ASSUME WithInline(p) \/ UNCHANGED cache
      PROVE  cache' \in [Nodes -> NodeCaches]
  <2>1. CASE UNCHANGED cache
    BY <2>1 DEF TypeOK
  <2>2. CASE WithInline(p) /\ podNode[p] # None
    <3> DEFINE n == podNode[p]
               nc == AddPodInlineVolumeInfo(Got(n), p, n)
    <3>1. n \in Nodes
      BY <2>2 DEF TypeOK
    <3>2. nc \in NodeCaches
      BY <3>1, GotType, InlineHandlersType DEF TypeOK
    <3>3. cache' = [cache EXCEPT ![n] = nc]
      BY <2>2 DEF WithInline
    <3> HIDE DEF nc
    <3> QED
      BY <3>1, <3>2, <3>3 DEF TypeOK
  <2> QED
    BY <1>2, <2>1, <2>2 DEF WithInline
<1>3. CASE OnPodAdd(p)
  <2>1. WithInline(p) \/ UNCHANGED cache
    BY <1>3 DEF OnPodAdd
  <2>2. cache' \in [Nodes -> NodeCaches]
    BY <1>2, <2>1
  <2>3. PutPod(p) \/ UNCHANGED <<info, pvcPod>>
    BY <1>3 DEF OnPodAdd
  <2>4. /\ info' \in [Pods -> (SUBSET Claims) \cup {None}]
        /\ pvcPod' \in [Claims -> Pods \cup {None}]
        /\ \A c \in Claims : pvcPod'[c] # None => c \in Mounts(pvcPod'[c])
    <3>1. CASE PutPod(p)
      BY <3>1, MappingType, Zenon
    <3>2. CASE UNCHANGED <<info, pvcPod>>
      BY <3>2 DEF TypeOK
    <3> QED
      BY <2>3, <3>1, <3>2
  <2>5. UNCHANGED <<api, binding, seenPV, seenNLS, disturbances>> /\ seenPod' = seenPod \cup {p}
    BY <1>3 DEF OnPodAdd, PodHandled
  <2> QED
    BY <2>2, <2>4, <2>5 DEF TypeOK
<1>4. CASE OnPodUpdate(p)
  <2>1. (WithInline(p) \/ UNCHANGED cache) /\ PutPod(p)
    BY <1>4 DEF OnPodUpdate
  <2>2. cache' \in [Nodes -> NodeCaches]
    BY <1>2, <2>1
  <2>3. /\ info' \in [Pods -> (SUBSET Claims) \cup {None}]
        /\ pvcPod' \in [Claims -> Pods \cup {None}]
        /\ \A c \in Claims : pvcPod'[c] # None => c \in Mounts(pvcPod'[c])
    BY <2>1, MappingType, Zenon
  <2>4. UNCHANGED <<api, binding, seenPod, seenPV, seenNLS, disturbances>>
    BY <1>4 DEF OnPodUpdate, PodHandled
  <2> QED
    BY <2>2, <2>3, <2>4 DEF TypeOK
<1>5. CASE OnPodDelete(p)
  <2>1. cache' \in [Nodes -> NodeCaches]
    <3>1. CASE UNCHANGED cache
      BY <3>1 DEF TypeOK
    <3>2. CASE ~UNCHANGED cache
      <4> DEFINE n == podNode[p]
                 nc == DeletePodInlineVolumeInfo(Got(n), p)
      <4>1. n \in Nodes /\ cache' = [cache EXCEPT ![n] = nc]
        BY <1>5, <3>2 DEF OnPodDelete, TypeOK
      <4>2. nc \in NodeCaches
        BY <4>1, GotType, InlineHandlersType DEF TypeOK
      <4> HIDE DEF nc
      <4> QED
        BY <4>1, <4>2 DEF TypeOK
    <3> QED
      BY <3>1, <3>2
  <2>2. ForgetPod(p) \/ UNCHANGED <<info, pvcPod>>
    BY <1>5 DEF OnPodDelete
  <2>3. /\ info' \in [Pods -> (SUBSET Claims) \cup {None}]
        /\ pvcPod' \in [Claims -> Pods \cup {None}]
        /\ \A c \in Claims : pvcPod'[c] # None => c \in Mounts(pvcPod'[c])
    <3>1. CASE ForgetPod(p)
      BY <3>1, MappingType, Zenon
    <3>2. CASE UNCHANGED <<info, pvcPod>>
      BY <3>2 DEF TypeOK
    <3> QED
      BY <2>2, <3>1, <3>2
  <2>4. /\ pod' = [pod EXCEPT ![p] = "absent"] /\ podNode' = [podNode EXCEPT ![p] = None]
        /\ seenPod' = seenPod \ {p}
        /\ UNCHANGED <<claim, selected, pv, nls, answer, used, batch, binding, seenPV, seenNLS>>
    BY <1>5 DEF OnPodDelete
  <2> QED
    BY <2>1, <2>3, <2>4 DEF TypeOK
<1>6. CASE Schedule(p)
  <2>1. PICK n \in Filter(p) :
          selected' = [c \in Claims |-> IF c \in Mounts(p) /\ claim[c] = "pending" THEN n
                                        ELSE selected[c]]
    BY <1>6 DEF Schedule
  <2>2. n \in Nodes
    BY DEF Filter
  <2> QED
    BY <1>6, <2>1, <2>2 DEF TypeOK, Schedule
<1>7. CASE RunPod(p)
  <2>1. PICK n \in IF Mounts(p) = {} THEN Filter(p) ELSE {pv[c].node : c \in Mounts(p)} :
          podNode' = [podNode EXCEPT ![p] = n]
    BY <1>7 DEF RunPod
  <2>2. podNode' \in [Pods -> Nodes \cup {None}]
    <3>1. CASE Mounts(p) = {}
      BY <2>1, <3>1 DEF Filter, TypeOK
    <3>2. CASE \E c \in Mounts(p) : n = pv[c].node
      <4>1. PICK c \in Mounts(p) : n = pv[c].node
        BY <3>2
      <4>2. c \in Claims
        BY MountsAreClaims
      <4>3. pv[c] \in Volumes => n \in Nodes
        BY <4>1 DEF Volumes
      <4>4. pv[c] # None
        BY <1>7, <4>1, <4>2 DEF RunPod, TypeOK
      <4> QED
        BY <2>1, <4>2, <4>3, <4>4 DEF TypeOK
    <3> QED
      BY <2>1, <3>1, <3>2
  <2> QED
    BY <1>7, <2>2 DEF TypeOK, RunPod
<1>8. CASE DeletePod(p)
  BY <1>8 DEF TypeOK, DeletePod
<1> QED
  BY <1>1, <1>3, <1>4, <1>5, <1>6, <1>7, <1>8 DEF NextPod

\* The steps of a node and the restart keep the types.
LEMMA NodeStepType ==
    ASSUME TypeOK, NEW n \in Nodes, OnNodeLocalStorage(n) \/ ChangeNLS(n)
    PROVE  TypeOK'
<1> USE DEF api, extender, seen
<1>1. nls[n] \in Statuses /\ cache[n] \in NodeCaches
  BY DEF TypeOK
<1>2. CASE OnNodeLocalStorage(n)
  <2> DEFINE nc == IF cache[n].known THEN UpdateNodeInfo(cache[n], nls[n])
                   ELSE NewNodeCacheFromStorage(nls[n])
  <2>1. nc \in NodeCaches
    BY <1>1, UpdateNodeInfoType, NewType
  <2>2. /\ cache' = [cache EXCEPT ![n] = nc] /\ seenNLS' = [seenNLS EXCEPT ![n] = nls[n]]
        /\ UNCHANGED <<api, binding, info, pvcPod, seenPod, seenPV, disturbances>>
    BY <1>2 DEF OnNodeLocalStorage
  <2> HIDE DEF nc
  <2> QED
    BY <1>1, <2>1, <2>2 DEF TypeOK
<1>3. CASE ChangeNLS(n)
  <2>1. ASSUME NEW d, d \in Disks
        PROVE  /\ [nls[n] EXCEPT !.disks = nls[n].disks \cup {d}] \in Statuses
               /\ [nls[n] EXCEPT !.disks = nls[n].disks \ {d}] \in Statuses
    BY <1>1, <2>1 DEF Statuses
  <2>2. ASSUME NEW v \in VGs
        PROVE  [nls[n] EXCEPT !.cap = [nls[n].cap EXCEPT ![v] = nls[n].cap[v] + 1]] \in Statuses
    BY <1>1 DEF Statuses
  <2>3. nls[n].disks \subseteq Disks
    BY <1>1 DEF Statuses
  <2>4. \E st \in Statuses : nls' = [nls EXCEPT ![n] = st]
    <3>1. CASE \E v \in VGs : nls' = [nls EXCEPT ![n].cap[v] = @ + 1]
      <4>1. PICK v \in VGs : nls' = [nls EXCEPT ![n].cap[v] = @ + 1]
        BY <3>1
      <4> DEFINE st == [nls[n] EXCEPT !.cap = [nls[n].cap EXCEPT ![v] = nls[n].cap[v] + 1]]
      <4>2. nls' = [nls EXCEPT ![n] = st]
        BY <4>1
      <4>3. st \in Statuses
        BY <2>2
      <4> HIDE DEF st
      <4> QED
        BY <4>2, <4>3
    <3>2. CASE \E d \in nls[n].disks : nls' = [nls EXCEPT ![n].disks = @ \ {d}]
      <4>1. PICK d \in nls[n].disks : nls' = [nls EXCEPT ![n].disks = @ \ {d}]
        BY <3>2
      <4> DEFINE st == [nls[n] EXCEPT !.disks = nls[n].disks \ {d}]
      <4>2. nls' = [nls EXCEPT ![n] = st]
        BY <4>1
      <4>3. st \in Statuses
        BY <2>1, <2>3
      <4> HIDE DEF st
      <4> QED
        BY <4>2, <4>3
    <3>3. CASE \E d \in Disks \ nls[n].disks : nls' = [nls EXCEPT ![n].disks = @ \cup {d}]
      <4>1. PICK d \in Disks \ nls[n].disks : nls' = [nls EXCEPT ![n].disks = @ \cup {d}]
        BY <3>3
      <4> DEFINE st == [nls[n] EXCEPT !.disks = nls[n].disks \cup {d}]
      <4>2. nls' = [nls EXCEPT ![n] = st]
        BY <4>1
      <4>3. st \in Statuses
        BY <2>1
      <4> HIDE DEF st
      <4> QED
        BY <4>2, <4>3
    <3> QED
      BY <1>3, <3>1, <3>2, <3>3, Zenon DEF ChangeNLS
  <2> QED
    BY <1>3, <2>4 DEF TypeOK, ChangeNLS
<1> QED
  BY <1>2, <1>3

\* The types are kept by every step, whatever the environment does.
LEMMA TypeInductive ==
    ASSUME TypeOK, [Next]_vars
    PROVE  TypeOK'
<1>1. CASE UNCHANGED vars
  BY <1>1 DEF TypeOK, vars, api, extender, seen
<1>2. CASE Restart
  BY <1>2, NewType DEF TypeOK, Restart, api
<1> QED
  BY <1>1, <1>2, ClaimStepType, PodStepType, NodeStepType DEF Next

\* Type correctness of the extender and of the objects around it: the handlers,
\* the two requests, the crash and every fault of the environment keep the types,
\* under both strategies.
THEOREM TypeCorrect == Spec => []TypeOK
<1>1. Init => TypeOK
  BY InitType
<1>2. TypeOK /\ [Next]_vars => TypeOK'
  BY TypeInductive
<1> QED
  BY <1>1, <1>2, PTL DEF Spec

\* FilterIsSound for every instance and every fault: a node that passes the filter
\* (CapacityPredicate, which packs) gets a place for every claim from SchedulingPVC
\* (which packs or spreads) and Assume accepts all of them, unless claims of the pod
\* compete for the disks of one kind and media type, or two claims are spread.
THEOREM FilterSound ==
    ASSUME PlacesCounted
    PROVE  Spec => []FilterIsSound
<1>1. TypeOK => FilterIsSound
  BY FilterFits DEF TypeOK
<1> QED
  BY <1>1, TypeCorrect, PTL

----------------------------------------------------------------------------
(* The request, in closed form *)

\* Request (c, n, S, a): the request for c places the claims S of its pod on n as a
\* says.  They were pending, none of them answered or charged; the disks were
\* free and no two claims get one; no volume group is filled beyond its capacity.
Request(c, n, S, a) ==
    /\ n \in Nodes /\ S \subseteq Claims /\ c \in S
    /\ \A d \in S : /\ claim[d] = "pending" /\ binding[d] = None /\ selected[d] = n
                    /\ cache[n].records[d] = None
                    /\ a[d] \in Fitting(d) /\ (~Asks(d) => a[d] = VGParam[d])
                    /\ Kind[d] # "LVM" => a[d] \in cache[n].disks \ cache[n].held
    /\ \A d, e \in S : Kind[d] # "LVM" /\ Kind[e] # "LVM" /\ a[d] = a[e] => d = e
    /\ \A d \in S : Kind[d] = "LVM" =>
          /\ a[d] \in cache[n].vgs
          /\ cache[n].req[a[d]] + Charged(cache[n], a, S, a[d]) <= cache[n].cap[a[d]]
    /\ cache' = [cache EXCEPT ![n] = After(cache[n], n, a, S)]
    /\ binding' = [d \in Claims |-> IF d \in S THEN Unit(d, n, a[d]) ELSE binding[d]]
    /\ answer' = [answer EXCEPT ![c] = [target |-> n, unit |-> Unit(c, n, a[c])]]

\* The charge of a request is at most that of the claims D and of one more claim if
\* these are all it puts into the group.
LEMMA ChargedLast ==
    ASSUME NEW nc, NEW a, NEW S, NEW D, NEW c \in Claims, c \notin D, NEW v,
           \A d \in S : Kind[d] = "LVM" /\ a[d] = v => d \in D \cup {c}
    PROVE  /\ Charged(nc, a, S, v) \in Nat /\ Charged(nc, a, D, v) \in Nat
           /\ Charged(nc, a, S, v) <= Charged(nc, a, D, v) + Size[c]
<1> DEFINE F(X) == [d \in Claims |-> IF /\ d \in X /\ Kind[d] = "LVM" /\ nc.records[d] = None
                                        /\ a[d] = v
                                     THEN Size[d] ELSE 0]
           f == F(S)
           g == F(D)
           h == [d \in Claims |-> IF d = c THEN Size[c] ELSE g[d]]
<1>1. /\ f \in [Claims -> 0..MaxSize] /\ g \in [Claims -> 0..MaxSize]
      /\ h \in [Claims -> 0..MaxSize]
  BY SizeAssumption, MaxSizeAssumption DEF Sizes
<1>2. /\ \A d \in Claims : d # c => h[d] = g[d]
      /\ g[c] = 0 /\ h[c] = Size[c] /\ Size[c] \in Nat
      /\ \A d \in Claims : f[d] <= h[d]
  BY SizeAssumption, MaxSizeAssumption DEF Sizes
<1>3. Total(f) = Charged(nc, a, S, v) /\ Total(g) = Charged(nc, a, D, v)
  BY DEF Charged
<1> HIDE DEF f, g, h
<1>4. Total(f) \in Nat /\ Total(g) \in Nat /\ Total(h) \in Nat
  BY <1>1, TotalType, StorageAssumption
<1>5. Total(h) = Total(g) - g[c] + h[c]
  BY <1>1, <1>2, TotalUpdate, StorageAssumption
<1>6. Total(f) <= Total(h)
  BY <1>1, <1>2, TotalMonotone, StorageAssumption
<1> QED
  BY <1>2, <1>3, <1>4, <1>5, <1>6

\* What a request puts into a volume group fits: the last claim of the request that
\* goes there found room behind all the others.
LEMMA RequestFits ==
    ASSUME NEW nc \in NodeCaches, NEW ps \in Seq(Claims),
           NEW S \in SUBSET Range(ps), S \subseteq Claims, Spread => OneOpen(S),
           NEW a \in Placements(nc, ps, S), NEW e \in S, Kind[e] = "LVM"
    PROVE  /\ a[e] \in nc.vgs
           /\ VGParam[e] # None => a[e] = VGParam[e]
           /\ nc.req[a[e]] + Charged(nc, a, S, a[e]) <= nc.cap[a[e]]
<1> DEFINE t == DivideLVMPVCs(ps, S)
           vg == a[e]
           W == {d \in S : Kind[d] = "LVM" /\ a[d] = vg}
<1>1. /\ t \in [S -> Nat]
      /\ \A c, d \in OfKind(S, "LVM") : t[c] = t[d] => c = d
  BY TurnsDiffer
<1>2. PICK c \in W : \A d \in W : t[d] <= t[c]
  <2>1. W \in SUBSET S /\ W # {} /\ W \subseteq Claims
    OBVIOUS
  <2>2. IsFiniteSet(W)
    BY <2>1, StorageAssumption, FS_Subset
  <2>3. \A x \in S : t[x] \in Int
    BY <1>1
  <2> HIDE DEF W, t
  <2> QED
    BY <2>1, <2>2, <2>3, LargestKey
<1> DEFINE D == W \ {c}
<1>3. /\ c \in S /\ c \in Claims /\ Kind[c] = "LVM" /\ a[c] = vg /\ D \in SUBSET S /\ c \notin D
      /\ D \subseteq W /\ D \cup {c} = W
  OBVIOUS
<1>4. \A d \in D : Kind[d] = "LVM" => t[d] < t[c]
  <2> SUFFICES ASSUME NEW d \in D PROVE t[d] < t[c]
    OBVIOUS
  <2>1. d \in W /\ c \in W /\ d # c /\ d \in OfKind(S, "LVM") /\ c \in OfKind(S, "LVM")
    BY <1>3 DEF OfKind
  <2>2. t[d] \in Nat /\ t[c] \in Nat /\ d \in S
    BY <1>1, <2>1
  <2> QED
    BY <1>1, <1>2, <2>1, <2>2
<1> HIDE DEF D, W, t, vg
<1>5. /\ a[c] \in nc.vgs
      /\ VGParam[c] # None => a[c] = VGParam[c]
      /\ nc.req[a[c]] + Charged(nc, a, D, a[c]) + Size[c] <= nc.cap[a[c]]
  <2>1. S \in SUBSET Claims /\ D \in SUBSET S /\ c \in S /\ Kind[c] = "LVM"
    BY <1>3
  <2>2. \A d \in D : Kind[d] = "LVM" => DivideLVMPVCs(ps, S)[d] < DivideLVMPVCs(ps, S)[c]
    BY <1>4 DEF t
  <2> QED
    BY <2>1, <2>2, RoomAtTurn, Zenon
<1>6. /\ Charged(nc, a, S, vg) \in Nat /\ Charged(nc, a, D, vg) \in Nat
      /\ Charged(nc, a, S, vg) <= Charged(nc, a, D, vg) + Size[c]
  <2>1. c \in Claims /\ c \notin D
    BY <1>3
  <2>2. \A d \in S : Kind[d] = "LVM" /\ a[d] = vg => d \in D \cup {c}
    BY <1>3 DEF W
  <2> QED
    BY <2>1, <2>2, ChargedLast, Zenon
<1>8. nc.req[vg] \in Int /\ nc.cap[vg] \in Int /\ Size[c] \in Nat
  BY <1>3, <1>5, SizeAssumption, MaxSizeAssumption DEF NodeCaches, Sizes
<1>9. VGParam[e] # None => a[e] = VGParam[e]
  <2>1. e \in OfKind(S, "LVM")
    BY DEF OfKind
  <2> QED
    BY <2>1, PlacedLVM, Zenon
<1>11. nc.req[vg] + Charged(nc, a, D, vg) + Size[c] <= nc.cap[vg]
  BY <1>3, <1>5
<1>12. nc.req[vg] + Charged(nc, a, S, vg) <= nc.cap[vg]
  BY <1>6, <1>8, <1>11
<1> QED
  BY <1>3, <1>5, <1>9, <1>12 DEF vg

\* A unit determines its node and its place.
LEMMA UnitFields ==
    ASSUME NEW c, NEW n, NEW w
    PROVE  /\ Unit(c, n, w).claim = c /\ Unit(c, n, w).node = n /\ Unit(c, n, w).where = w
           /\ \A m, x : Unit(c, n, w) = Unit(c, m, x) => m = n /\ x = w
  BY DEF Unit

\* The unit of a claim on a node is a place.
LEMMA UnitIsPlace ==
    ASSUME NEW c \in Claims, NEW n \in Nodes, NEW w \in Fitting(c)
    PROVE  Unit(c, n, w) \in Places /\ Unit(c, n, w) # None
<1>1. Unit(c, n, w) \in Places
  BY DEF Unit, Places, Fitting
<1> QED
  BY <1>1, NoneAssumption

\* A request that is served in an orderly environment is a Request: the claims of
\* the pod are pending and have the same node, none of them was answered, and Assume
\* accepts all of their places.
LEMMA RequestEffect ==
    ASSUME Faults = {}, PlacesCounted, ExtenderInv, NEW c \in Claims, SchedulingPVC(c)
    PROVE  \E a : Request(c, selected[c], Unbound(pvcPod[c]), a)
<1> DEFINE n == selected[c]
           p == pvcPod[c]
           S == Unbound(p)
           ps == PodClaims[p]
           units(a, s) == [i \in 1..Cardinality(S) |-> Unit(s[i], n, a[s[i]])]
<1>0. TypeOK
  BY DEF ExtenderInv
<1>1. /\ n \in Nodes /\ cache[n] \in NodeCaches /\ p \in Pods
      /\ ps \in Seq(Claims) /\ S \in SUBSET Range(ps) /\ S \subseteq Claims
  BY <1>0, Placed, Zenon
<1>2. PICK a \in Placements(cache[n], ps, S), s \in Orders(S, DivideLVMPVCs(ps, S)) :
         LET r == Assume(cache[n], units(a, s))
         IN  /\ \A d \in S : a[d] \in Fitting(d)
             /\ r \in [nc : NodeCaches, err : BOOLEAN]
             /\ cache' = [cache EXCEPT ![n] = r.nc]
             /\ IF ~r.err
                THEN /\ binding' = [d \in Claims |->
                           IF d \in S THEN Unit(d, n, a[d]) ELSE binding[d]]
                     /\ Answered(c, binding'[c])
                ELSE UNCHANGED <<binding, answer>>
  BY <1>0, Placed, Zenon
<1>3. c \in S /\ \A d \in S : claim[d] = "pending" /\ selected[d] = n
  <2>1. c \in Mounts(p) /\ claim[c] = "pending" /\ Listed(p)
    BY <1>0 DEF TypeOK, SchedulingPVC, CreateVolume, PodKnown
  <2>2. \A d \in S : claim[d] \in {"pending"}
    BY <1>0, <1>1, <2>1 DEF TypeOK, Unbound, Listed
  <2>3. \A d \in S : selected[d] = n
    BY DEF SchedulingPVC
  <2>4. c \in S
    BY <2>1 DEF Unbound
  <2> QED
    BY <2>2, <2>3, <2>4
<1>4. p \in batch /\ S \subseteq Mounts(p) /\ (Spread => OneOpen(S))
  <2>1. p \in batch /\ S \subseteq Mounts(p)
    BY <1>0, <1>1 DEF ExtenderInv, PodInv, Unbound, SchedulingPVC, PodKnown
  <2> QED
    BY <1>1, <2>1 DEF PlacesCounted, OneOpen, OfKind
<1>5. \A d \in S : binding[d] = None
  <2>1. binding[c] = None
    BY DEF SchedulingPVC
  <2> HIDE DEF S, n, p
  <2> QED
    BY <1>3, <1>4, <2>1 DEF ExtenderInv, TogetherInv
<1> HIDE DEF n, p, S, ps
<1>6. \A d \in S : cache[n].records[d] = None
  <2>1. RecordsInv(n)
    BY <1>1 DEF ExtenderInv, NodeInv
  <2> QED
    BY <1>1, <1>3, <1>5, <2>1 DEF RecordsInv
<1>7. /\ \A d \in S : Kind[d] # "LVM" => a[d] \in cache[n].disks \ cache[n].held
      /\ \A d, e \in S : Kind[d] # "LVM" /\ Kind[e] # "LVM" /\ a[d] = a[e] => d = e
  BY <1>1, DisksPlaced
<1>8. \A e \in S : Kind[e] = "LVM" =>
         /\ a[e] \in cache[n].vgs
         /\ VGParam[e] # None => a[e] = VGParam[e]
         /\ cache[n].req[a[e]] + Charged(cache[n], a, S, a[e]) <= cache[n].cap[a[e]]
  <2> TAKE e \in S
  <2> HAVE Kind[e] = "LVM"
  <2> QED
    BY <1>1, <1>4, RequestFits, Zenon
<1>9. \A e \in S : ~Asks(e) => a[e] = VGParam[e]
  BY <1>8 DEF Asks
<1>10. Assume(cache[n], units(a, s)) = [nc |-> After(cache[n], n, a, S), err |-> FALSE]
  BY <1>1, <1>4, AssumeAccepts
<1> DEFINE x == After(cache[n], n, a, S)
<1>11. /\ cache' = [cache EXCEPT ![n] = x]
       /\ binding' = [d \in Claims |-> IF d \in S THEN Unit(d, n, a[d]) ELSE binding[d]]
       /\ Answered(c, binding'[c])
  <2> DEFINE r == Assume(cache[n], units(a, s))
  <2>1. r.nc = x /\ r.err = FALSE
    BY <1>10
  <2> HIDE DEF x, units
  <2> QED
    BY <1>2, <2>1, Zenon
<1>12. answer' = [answer EXCEPT ![c] = [target |-> n, unit |-> Unit(c, n, a[c])]]
  <2>1. binding'[c] = Unit(c, n, a[c])
    BY <1>3, <1>11
  <2> QED
    BY <1>11, <2>1 DEF Answered, n
<1>13. Request(c, n, S, a)
  BY <1>1, <1>2, <1>3, <1>5, <1>6, <1>7, <1>8, <1>9, <1>11, <1>12 DEF Request
<1> QED
  BY <1>13 DEF n, S, p

----------------------------------------------------------------------------
(* The stages of a claim are kept *)

\* A claim whose objects a step leaves alone stays in its stage.
LEMMA StageFrame ==
    ASSUME NEW d \in Claims, InStage(d), used \subseteq used',
           claim'[d] = claim[d], selected'[d] = selected[d], pv'[d] = pv[d],
           seenPV'[d] = seenPV[d], answer'[d] = answer[d], binding'[d] = binding[d]
    PROVE  InStage(d)'
  BY DEF InStage, Absent, Waiting, Made, Bound, Deleted, Backed

\* What the stage of a claim says when an event of its volume is handled, its
\* CreateVolume runs or its volume is bound.
LEMMA StageOf ==
    ASSUME TypeOK, NEW c \in Claims, InStage(c)
    PROVE  /\ pv[c] # None /\ seenPV[c] = None => Bound(c)
           /\ pv[c] # None /\ seenPV[c] # None => Made(c) \/ Bound(c)
           /\ pv[c] # None /\ seenPV[c] # pv[c] => Bound(c)
           /\ pv[c] = None /\ seenPV[c] # None => Deleted(c)
           /\ claim[c] = "pending" /\ pv[c] = None => Waiting(c)
           /\ claim[c] = "pending" /\ pv[c] # None => Made(c)
           /\ claim[c] = "bound" => Bound(c)
           /\ answer[c] # None => Waiting(c)
           /\ ~Absent(c) => c \in used
  BY DEF InStage, Absent, Waiting, Made, Bound, Deleted

\* The steps of a claim keep the stage of every claim.
LEMMA StagesClaimStep ==
    ASSUME Faults = {}, PlacesCounted, ExtenderInv, NEW c \in Claims, NextClaim(c), NEW d \in Claims
    PROVE  InStage(d)'
<1> USE DEF api, extender, seen
<1>0. TypeOK /\ InStage(c) /\ InStage(d)
  BY DEF ExtenderInv
<1>1. CASE OnPVAdd(c)
  <2>1. CASE d # c
    <3>1. binding'[d] = binding[d] /\ seenPV'[d] = seenPV[d]
      BY <1>0, <1>1, <2>1 DEF TypeOK, OnPVAdd, SeePV
    <3> QED
      BY <1>0, <1>1, <3>1, StageFrame DEF OnPVAdd, PVHandled
  <2>2. CASE d = c
    <3>1. Bound(c) /\ c \in used
      BY <1>0, <1>1, StageOf DEF OnPVAdd, Absent
    <3>2. seenPV'[c] = pv[c] /\ binding'[c] = Unit(c, pv[c].node, pv[c].where)
      BY <1>0, <1>1, <3>1 DEF OnPVAdd, SeePV, TypeOK, Bound
    <3>3. Bound(c)'
      BY <1>0, <1>1, <3>1, <3>2 DEF OnPVAdd, PVHandled, Bound, Backed
    <3> QED
      BY <1>1, <2>2, <3>1, <3>3 DEF InStage, OnPVAdd, PVHandled
  <2> QED
    BY <2>1, <2>2
<1>2. CASE OnPVUpdate(c)
  <2>1. CASE d # c
    <3>1. seenPV'[d] = seenPV[d]
      BY <1>0, <1>2, <2>1 DEF TypeOK, OnPVUpdate, SeePV
    <3> QED
      BY <1>0, <1>2, <3>1, StageFrame DEF OnPVUpdate, PVHandled
  <2>2. CASE d = c
    <3>1. Bound(c) /\ c \in used
      BY <1>0, <1>2, StageOf DEF OnPVUpdate, Absent
    <3>2. seenPV'[c] = pv[c] /\ binding'[c] = binding[c]
      BY <1>0, <1>2 DEF OnPVUpdate, SeePV, TypeOK
    <3>3. Bound(c)'
      BY <1>0, <1>2, <3>1, <3>2 DEF OnPVUpdate, PVHandled, Bound, Backed
    <3> QED
      BY <1>2, <2>2, <3>1, <3>3 DEF InStage, OnPVUpdate, PVHandled
  <2> QED
    BY <2>1, <2>2
<1>3. CASE OnPVDelete(c)
  <2>1. CASE d # c
    <3>1. binding'[d] = binding[d] /\ seenPV'[d] = seenPV[d]
      BY <1>0, <1>3, <2>1 DEF TypeOK, OnPVDelete, SeePV
    <3> QED
      BY <1>0, <1>3, <3>1, StageFrame DEF OnPVDelete, PVHandled
  <2>2. CASE d = c
    <3>1. Deleted(c)
      BY <1>0, <1>3, StageOf DEF OnPVDelete
    <3>2. cache[seenPV[c].node].known
      <4>1. seenPV[c].node \in Nodes /\ OnNode(c, seenPV[c].node)
        BY <1>0, <3>1 DEF TypeOK, Volumes, OnNode, Deleted
      <4> QED
        BY <4>1 DEF ExtenderInv, NodeInv, StatusInv
    <3>3. seenPV'[c] = None /\ binding'[c] = None
      BY <1>0, <1>3, <3>2 DEF OnPVDelete, SeePV, TypeOK
    <3> QED
      BY <1>3, <2>2, <3>1, <3>3 DEF InStage, Absent, Deleted, OnPVDelete, PVHandled
  <2> QED
    BY <2>1, <2>2
<1>4. CASE OnPvcUpdate(c)
  BY <1>0, <1>4, StageFrame DEF OnPvcUpdate
<1>5. CASE SchedulingPVC(c)
  <2> DEFINE n == selected[c]
             S == Unbound(pvcPod[c])
  <2>1. PICK a : Request(c, n, S, a)
    BY <1>5, RequestEffect
  <2> HIDE DEF n, S
  <2>2. UNCHANGED <<claim, selected, pv, used, seenPV>>
    BY <1>5 DEF SchedulingPVC
  <2>3. CASE d \notin S
    <3>1. binding'[d] = binding[d] /\ answer'[d] = answer[d]
      BY <1>0, <2>1, <2>3 DEF TypeOK, Request
    <3> QED
      BY <1>0, <2>2, <3>1, StageFrame
  <2>4. CASE d \in S
    <3>1. /\ claim[d] = "pending" /\ binding[d] = None /\ selected[d] = n /\ a[d] \in Fitting(d)
          /\ ~Asks(d) => a[d] = VGParam[d]
          /\ binding'[d] = Unit(d, n, a[d])
      BY <2>1, <2>4 DEF Request
    <3>2. answer'[d] = IF d = c THEN [target |-> n, unit |-> Unit(c, n, a[c])] ELSE answer[d]
      BY <1>0, <2>1, <2>4 DEF Request, TypeOK
    <3>3. (Waiting(d) \/ Made(d)) /\ d \in used
      BY <1>0, <3>1, StageOf DEF Absent
    <3>4. CASE Waiting(d)
      <4>1. CASE d = c
        BY <2>2, <3>1, <3>2, <3>3, <3>4, <4>1 DEF Waiting, InStage, Backed
      <4>2. CASE d # c
        <5>1. answer[d] # None => ~Asks(d)
          <6> SUFFICES ASSUME answer[d] # None PROVE ~Asks(d)
            OBVIOUS
          <6>1. PICK w \in Fitting(d) : Backed(d, selected[d], w)
            BY <3>4 DEF Waiting
          <6>2. n \in Nodes /\ Unit(d, n, w) # None
            BY <2>1, UnitIsPlace DEF Request
          <6> QED
            BY <3>1, <6>1, <6>2 DEF Backed
        <5>2. Waiting(d)'
          BY <2>2, <3>1, <3>2, <3>4, <4>2, <5>1 DEF Waiting, Backed
        <5> QED
          BY <2>2, <3>3, <5>2 DEF InStage
      <4> QED
        BY <4>1, <4>2
    <3>5. CASE Made(d)
      <4>1. ~Asks(d) /\ d # c
        <5>1. Unit(d, pv[d].node, pv[d].where) # None
          BY <1>0, <3>5, NoneAssumption DEF TypeOK, Made, Unit, Places, Volumes
        <5> QED
          BY <1>5, <3>1, <3>5, <5>1 DEF Made, Backed, SchedulingPVC, CreateVolume
      <4>2. Made(d)'
        BY <2>2, <3>1, <3>2, <3>5, <4>1 DEF Made, Backed
      <4> QED
        BY <2>2, <3>3, <4>2 DEF InStage
    <3> QED
      BY <3>3, <3>4, <3>5
  <2> QED
    BY <2>3, <2>4
<1>6. CASE SchedulingPVCAgain(c)
  <2>1. CASE d # c
    <3>1. answer'[d] = answer[d]
      BY <1>0, <1>6, <2>1 DEF TypeOK, SchedulingPVCAgain, Answered
    <3> QED
      BY <1>0, <1>6, <3>1, StageFrame DEF SchedulingPVCAgain
  <2>2. CASE d = c
    <3>1. Waiting(c) /\ c \in used
      BY <1>0, <1>6, StageOf DEF SchedulingPVCAgain, CreateVolume, Absent
    <3>2. answer'[c] = [target |-> selected[c], unit |-> binding[c]] /\ binding[c] # None
      BY <1>0, <1>6 DEF TypeOK, SchedulingPVCAgain, Answered
    <3>3. Waiting(c)'
      BY <1>6, <3>1, <3>2 DEF Waiting, Backed, SchedulingPVCAgain
    <3> QED
      BY <1>6, <2>2, <3>1, <3>3 DEF InStage, SchedulingPVCAgain
  <2> QED
    BY <2>1, <2>2
<1>7. CASE CreateVolumeNamed(c)
  <2>1. CASE d # c
    <3>1. answer'[d] = answer[d]
      BY <1>0, <1>7, <2>1 DEF TypeOK, CreateVolumeNamed, Answered
    <3> QED
      BY <1>0, <1>7, <3>1, StageFrame DEF CreateVolumeNamed
  <2>2. CASE d = c
    <3>1. Waiting(c) /\ c \in used
      BY <1>0, <1>7, StageOf DEF CreateVolumeNamed, CreateVolume, Absent
    <3>2. /\ answer'[c] = [target |-> selected[c], unit |-> Unit(c, selected[c], VGParam[c])]
          /\ ~Asks(c) /\ VGParam[c] \in Fitting(c)
      BY <1>0, <1>7, SizeAssumption DEF TypeOK, CreateVolumeNamed, Answered, Asks, Fitting
    <3>3. Waiting(c)'
      BY <1>7, <3>1, <3>2 DEF Waiting, Backed, CreateVolumeNamed
    <3> QED
      BY <1>7, <2>2, <3>1, <3>3 DEF InStage, CreateVolumeNamed
  <2> QED
    BY <2>1, <2>2
<1>8. CASE VolumeCreated(c)
  <2> DEFINE vol == [phase |-> "pending", node |-> answer[c].target,
                     where |-> answer[c].unit.where, size |-> Size[c]]
  <2>1. /\ pv' = [pv EXCEPT ![c] = vol] /\ seenPV' = [seenPV EXCEPT ![c] = pv'[c]]
        /\ answer' = [answer EXCEPT ![c] = None]
        /\ UNCHANGED <<claim, selected, used, binding>>
    BY <1>8 DEF VolumeCreated
  <2>2. CASE d # c
    <3>1. pv'[d] = pv[d] /\ seenPV'[d] = seenPV[d] /\ answer'[d] = answer[d]
      BY <1>0, <2>1, <2>2 DEF TypeOK
    <3> QED
      BY <1>0, <2>1, <3>1, StageFrame
  <2>3. CASE d = c
    <3>1. Waiting(c) /\ c \in used
      BY <1>0, <1>8, StageOf DEF VolumeCreated, Absent
    <3>2. PICK w \in Fitting(c) :
             /\ answer[c] = [target |-> selected[c], unit |-> Unit(c, selected[c], w)]
             /\ Backed(c, selected[c], w)
             /\ ~Asks(c) => w = VGParam[c]
      BY <1>8, <3>1 DEF Waiting, VolumeCreated
    <3>3. vol.node = selected[c] /\ vol.where = w /\ vol.phase = "pending" /\ vol.size = Size[c]
      BY <3>2 DEF Unit
    <3>4. pv'[c] = vol /\ seenPV'[c] = vol /\ answer'[c] = None
      BY <1>0, <2>1 DEF TypeOK
    <3>5. pv'[c] # None
      <4>1. TypeOK'
        BY <1>0, ClaimStepType
      <4>2. vol \in Volumes
        BY <1>0, <1>8, SizeAssumption DEF TypeOK, VolumeCreated, Volumes, Answers, Places
      <4> QED
        BY <3>4, <4>2, NoneAssumption
    <3> HIDE DEF vol
    <3>6. Made(c)'
      BY <2>1, <3>1, <3>2, <3>3, <3>4, <3>5 DEF Made, Backed, Waiting
    <3> QED
      BY <2>1, <2>3, <3>1, <3>6 DEF InStage
  <2> QED
    BY <2>2, <2>3
<1>9. CASE VolumeFailed(c)
  <2>1. CASE d # c
    <3>1. answer'[d] = answer[d]
      BY <1>0, <1>9, <2>1 DEF TypeOK, VolumeFailed
    <3> QED
      BY <1>0, <1>9, <3>1, StageFrame DEF VolumeFailed
  <2>2. CASE d = c
    <3>1. Waiting(c) /\ c \in used
      BY <1>0, <1>9, StageOf DEF VolumeFailed, Absent
    <3>2. answer'[c] = None
      BY <1>0, <1>9 DEF TypeOK, VolumeFailed
    <3> QED
      BY <1>9, <2>2, <3>1, <3>2 DEF Waiting, InStage, VolumeFailed
  <2> QED
    BY <2>1, <2>2
<1>10. CASE BindPV(c)
  <2> DEFINE vol == [pv[c] EXCEPT !.phase = "bound"]
  <2>1. /\ pv' = [pv EXCEPT ![c] = vol] /\ claim' = [claim EXCEPT ![c] = "bound"]
        /\ UNCHANGED <<selected, answer, used, binding, seenPV>>
    BY <1>10 DEF BindPV
  <2>2. CASE d # c
    <3>1. pv'[d] = pv[d] /\ claim'[d] = claim[d]
      BY <1>0, <2>1, <2>2 DEF TypeOK
    <3> QED
      BY <1>0, <2>1, <3>1, StageFrame
  <2>3. CASE d = c
    <3>1. Made(c) /\ c \in used
      BY <1>0, <1>10, StageOf DEF BindPV, Absent
    <3>2. /\ vol \in Volumes /\ vol.phase = "bound" /\ vol.node = pv[c].node
          /\ vol.where = pv[c].where /\ vol.size = pv[c].size
      BY <1>0, <3>1 DEF TypeOK, Made, Volumes
    <3>3. pv'[c] = vol /\ claim'[c] = "bound"
      BY <1>0, <2>1 DEF TypeOK
    <3>4. pv'[c] # None /\ Size[c] \in Int
      BY <3>2, <3>3, NoneAssumption, SizeAssumption, MaxSizeAssumption DEF Sizes
    <3> HIDE DEF vol
    <3>5. Bound(c)'
      BY <2>1, <3>1, <3>2, <3>3, <3>4 DEF Made, Bound, Backed
    <3> QED
      BY <2>1, <2>3, <3>1, <3>5 DEF InStage
  <2> QED
    BY <2>2, <2>3
<1>11. CASE ExpandPV(c)
  <2> DEFINE vol == [pv[c] EXCEPT !.size = pv[c].size + 1]
  <2>1. /\ pv' = [pv EXCEPT ![c] = vol]
        /\ UNCHANGED <<claim, selected, answer, used, binding, seenPV>>
    BY <1>11 DEF ExpandPV
  <2>2. CASE d # c
    <3>1. pv'[d] = pv[d]
      BY <1>0, <2>1, <2>2 DEF TypeOK
    <3> QED
      BY <1>0, <2>1, <3>1, StageFrame
  <2>3. CASE d = c
    <3>1. Bound(c) /\ c \in used
      BY <1>0, <1>11, StageOf DEF ExpandPV, Absent, Made
    <3>2. /\ vol \in Volumes /\ vol.phase = "bound" /\ vol.node = pv[c].node
          /\ vol.where = pv[c].where /\ vol.size = pv[c].size + 1 /\ pv[c].size \in Int
      BY <1>0, <1>11, <3>1, MaxSizeAssumption DEF TypeOK, Bound, Volumes, Sizes, ExpandPV
    <3>3. pv'[c] = vol /\ seenPV[c] = pv[c]
      BY <1>0, <1>11, <2>1 DEF TypeOK, ExpandPV
    <3>4. pv'[c] # None /\ Size[c] \in Int
      BY <3>2, <3>3, NoneAssumption, SizeAssumption, MaxSizeAssumption DEF Sizes
    <3> HIDE DEF vol
    <3>5. Bound(c)'
      BY <2>1, <3>1, <3>2, <3>3, <3>4 DEF Bound, Backed
    <3> QED
      BY <2>1, <2>3, <3>1, <3>5 DEF InStage
  <2> QED
    BY <2>2, <2>3
<1>12. CASE DeleteClaim(c)
  <2>1. /\ claim' = [claim EXCEPT ![c] = "absent"] /\ selected' = [selected EXCEPT ![c] = None]
        /\ pv' = [pv EXCEPT ![c] = None]
        /\ UNCHANGED <<answer, used, binding, seenPV>>
    BY <1>12 DEF DeleteClaim
  <2>2. CASE d # c
    <3>1. pv'[d] = pv[d] /\ claim'[d] = claim[d] /\ selected'[d] = selected[d]
      BY <1>0, <2>1, <2>2 DEF TypeOK
    <3> QED
      BY <1>0, <2>1, <3>1, StageFrame
  <2>3. CASE d = c
    <3>1. pv'[c] = None /\ claim'[c] = "absent"
      BY <1>0, <2>1 DEF TypeOK
    <3>2. CASE claim[c] = "bound"
      <4>1. Bound(c) /\ c \in used /\ seenPV[c] = pv[c]
        BY <1>0, <1>12, <3>2, StageOf DEF DeleteClaim, Absent
      <4>2. Deleted(c)'
        BY <2>1, <3>1, <4>1 DEF Bound, Deleted, Backed
      <4> QED
        BY <2>1, <2>3, <4>1, <4>2 DEF InStage
    <3>3. CASE claim[c] # "bound"
      <4>1. Waiting(c) /\ answer[c] = None /\ binding[c] = None
        BY <1>0, <1>12, <3>3, StageOf DEF DeleteClaim
      <4> QED
        BY <2>1, <2>3, <3>1, <4>1 DEF InStage, Waiting, Absent
    <3> QED
      BY <3>2, <3>3
  <2> QED
    BY <2>2, <2>3
<1>13. CASE RemoveSelectedNode(c)
  <2>1. /\ claim[c] = "pending" /\ binding[c] = None /\ answer[c] = None /\ pv[c] = None
        /\ selected' = [selected EXCEPT ![c] = None]
        /\ UNCHANGED <<claim, pv, answer, used, binding, seenPV>>
    BY <1>13 DEF RemoveSelectedNode
  <2>2. CASE d # c
    <3>1. selected'[d] = selected[d]
      BY <1>0, <2>1, <2>2 DEF TypeOK
    <3> QED
      BY <1>0, <2>1, <3>1, StageFrame
  <2>3. CASE d = c
    <3>1. Waiting(c) /\ c \in used
      BY <1>0, <2>1, StageOf DEF Absent
    <3> QED
      BY <2>1, <2>3, <3>1 DEF InStage, Waiting
  <2> QED
    BY <2>2, <2>3
<1> QED
  BY <1>1, <1>2, <1>3, <1>4, <1>5, <1>6, <1>7, <1>8, <1>9, <1>10, <1>11, <1>12, <1>13
  DEF NextClaim

\* The steps of a pod keep the stage of every claim.
LEMMA StagesPodStep ==
    ASSUME Faults = {}, PlacesCounted, ExtenderInv, NEW p \in Pods, NextPod(p), NEW d \in Claims
    PROVE  InStage(d)'
<1> USE DEF api, extender, seen
<1>0. TypeOK /\ InStage(d)
  BY DEF ExtenderInv
<1>1. CASE CreatePod(p)
  <2>1. /\ claim'[d] = IF d \in Mounts(p) /\ claim[d] = "absent" THEN "pending" ELSE claim[d]
        /\ used' = used \cup Mounts(p)
        /\ UNCHANGED <<selected, pv, answer, binding, seenPV>>
    BY <1>1 DEF CreatePod
  <2>2. CASE d \in Mounts(p) /\ claim[d] = "absent"
    <3>1. d \notin used
      BY <1>1, <2>2 DEF CreatePod
    <3>2. Absent(d)
      BY <1>0, <3>1 DEF InStage
    <3> QED
      BY <2>1, <2>2, <3>2 DEF InStage, Absent, Waiting
  <2>3. CASE ~(d \in Mounts(p) /\ claim[d] = "absent")
    BY <1>0, <2>1, <2>3, StageFrame
  <2> QED
    BY <2>2, <2>3
<1>2. CASE OnPodAdd(p)
  BY <1>0, <1>2, StageFrame DEF OnPodAdd, PodHandled
<1>3. CASE OnPodUpdate(p)
  BY <1>0, <1>3, StageFrame DEF OnPodUpdate, PodHandled
<1>4. CASE OnPodDelete(p)
  BY <1>0, <1>4, StageFrame DEF OnPodDelete
<1>5. CASE Schedule(p)
  <2>1. PICK n : selected' = [c \in Claims |->
                                IF c \in Mounts(p) /\ claim[c] = "pending" THEN n ELSE selected[c]]
    BY <1>5 DEF Schedule
  <2>2. UNCHANGED <<claim, pv, answer, used, binding, seenPV>>
    BY <1>5 DEF Schedule
  <2>3. CASE d \in Mounts(p) /\ claim[d] = "pending"
    <3>1. selected[d] = None
      BY <1>5, <2>3 DEF Schedule
    <3>2. (Waiting(d) \/ Made(d)) /\ d \in used
      BY <1>0, <2>3, StageOf DEF Absent
    <3>3. ~Made(d)
      BY <1>0, <3>1, NoneAssumption DEF TypeOK, Made, Volumes
    <3>4. binding[d] = None
      <4> SUFFICES ASSUME binding[d] # None PROVE FALSE
        OBVIOUS
      <4>1. PICK w : binding[d] = Unit(d, None, w)
        BY <3>1, <3>2, <3>3 DEF Waiting
      <4>2. binding[d].node \in Nodes /\ binding[d].node = None
        BY <1>0, <4>1 DEF TypeOK, Places, Unit
      <4> QED
        BY <4>2, NoneAssumption
    <3>5. answer[d] = None
      <4> SUFFICES ASSUME answer[d] # None PROVE FALSE
        OBVIOUS
      <4>1. PICK w : answer[d] = [target |-> None, unit |-> Unit(d, None, w)]
        BY <3>1, <3>2, <3>3 DEF Waiting
      <4>2. answer[d].target \in Nodes /\ answer[d].target = None
        BY <1>0, <4>1 DEF TypeOK, Answers
      <4> QED
        BY <4>2, NoneAssumption
    <3> QED
      BY <2>2, <3>2, <3>3, <3>4, <3>5 DEF InStage, Waiting
  <2>4. CASE ~(d \in Mounts(p) /\ claim[d] = "pending")
    <3>1. selected'[d] = selected[d]
      BY <2>1, <2>4
    <3> QED
      BY <1>0, <2>2, <3>1, StageFrame
  <2> QED
    BY <2>3, <2>4
<1>6. CASE RunPod(p)
  BY <1>0, <1>6, StageFrame DEF RunPod
<1>7. CASE DeletePod(p)
  BY <1>0, <1>7, StageFrame DEF DeletePod
<1> QED
  BY <1>1, <1>2, <1>3, <1>4, <1>5, <1>6, <1>7 DEF NextPod

\* A restart in an orderly environment: no answer is lost, and every volume is bound.
LEMMA OrderlyRestart ==
    ASSUME Faults = {}, Restart, NEW c \in Claims
    PROVE  /\ binding[c] # None => pv[c] # None
           /\ pv[c] # None => pv[c].phase = "bound"
           /\ answer[c] = None
           /\ binding'[c] = None /\ seenPV'[c] = None
  BY DEF Restart

\* Every step keeps the stage of every claim.
LEMMA StagesStep ==
    ASSUME Faults = {}, PlacesCounted, ExtenderInv, Next, NEW d \in Claims
    PROVE  InStage(d)'
<1>0. TypeOK /\ InStage(d)
  BY DEF ExtenderInv
<1>1. CASE Restart
  <2>1. UNCHANGED <<claim, selected, pv, answer, used>>
    BY <1>1 DEF Restart, api
  <2>2. /\ binding[d] # None => pv[d] # None
        /\ pv[d] # None => pv[d].phase = "bound"
        /\ answer[d] = None
        /\ binding'[d] = None /\ seenPV'[d] = None
    BY <1>1, OrderlyRestart
  <2>3. CASE Absent(d)
    BY <2>1, <2>2, <2>3 DEF InStage, Absent
  <2>4. CASE d \in used /\ Waiting(d)
    BY <2>1, <2>2, <2>4 DEF InStage, Waiting
  <2>5. CASE d \in used /\ Bound(d)
    BY <2>1, <2>2, <2>5 DEF InStage, Bound
  <2>6. CASE d \in used /\ Deleted(d)
    BY <2>1, <2>2, <2>6 DEF InStage, Absent, Deleted
  <2>7. ~Made(d)
    BY <2>2 DEF Made
  <2> QED
    BY <1>0, <2>3, <2>4, <2>5, <2>6, <2>7 DEF InStage
<1>2. ASSUME NEW n \in Nodes, OnNodeLocalStorage(n) \/ ChangeNLS(n)
      PROVE  InStage(d)'
  BY <1>0, <1>2, StageFrame DEF OnNodeLocalStorage, ChangeNLS, api, extender, seen
<1> QED
  BY <1>1, <1>2, StagesClaimStep, StagesPodStep DEF Next

----------------------------------------------------------------------------
(* Pods, and the claims of a pod *)

\* The pods of a batch that have a claim in common are one pod.
LEMMA OnePod ==
    ASSUME TypeOK, NEW p \in batch, NEW q \in batch, NEW c, c \in Mounts(p), c \in Mounts(q)
    PROVE  p = q /\ p \in Pods
<1>1. batch \in Batches /\ p \in Pods /\ q \in Pods
  BY BatchAssumption DEF TypeOK
<1> QED
  BY <1>1, BatchAssumption DEF Mounts

\* The pods and the mapping stay in order.
LEMMA PodInvStep ==
    ASSUME Faults = {}, PlacesCounted, ExtenderInv, Next
    PROVE  PodInv'
<1> USE DEF api, extender, seen
<1>0. TypeOK /\ PodInv
  BY DEF ExtenderInv
<1>1. CASE Restart
  BY <1>0, <1>1 DEF Restart, PodInv, Listed
<1>2. ASSUME NEW n \in Nodes, OnNodeLocalStorage(n) \/ ChangeNLS(n)
      PROVE  PodInv'
  BY <1>0, <1>2 DEF OnNodeLocalStorage, ChangeNLS, PodInv, Listed
<1>3. ASSUME NEW c \in Claims, NextClaim(c)
      PROVE  PodInv'
  <2>1. CASE DeleteClaim(c)
    <3>1. \A p \in Pods : c \in Mounts(p) => pod[p] = "absent"
      BY <2>1 DEF DeleteClaim
    <3>2. /\ claim' = [claim EXCEPT ![c] = "absent"] /\ pvcPod' = [pvcPod EXCEPT ![c] = None]
          /\ UNCHANGED <<pod, batch, seenPod>>
      BY <2>1 DEF DeleteClaim
    <3>3. \A p \in Pods : pod[p] # "absent" => p \in batch /\ Listed(p)'
      <4> SUFFICES ASSUME NEW p \in Pods, pod[p] # "absent" PROVE p \in batch /\ Listed(p)'
        OBVIOUS
      <4>1. c \notin Mounts(p) /\ p \in batch /\ Listed(p) /\ Mounts(p) \subseteq Claims
        BY <1>0, <3>1, MountsAreClaims DEF PodInv
      <4> QED
        BY <1>0, <3>2, <4>1 DEF Listed, TypeOK
    <3> QED
      BY <1>0, <3>2, <3>3 DEF PodInv, TypeOK
  <2>2. CASE BindPV(c)
    <3>1. claim' = [claim EXCEPT ![c] = "bound"] /\ UNCHANGED <<pod, batch, seenPod, pvcPod>>
      BY <2>2 DEF BindPV
    <3>2. ASSUME NEW p \in Pods, Listed(p) PROVE Listed(p)'
      BY <1>0, <3>1, <3>2, MountsAreClaims DEF Listed, TypeOK
    <3> QED
      BY <1>0, <3>1, <3>2 DEF PodInv
  <2>3. ASSUME UNCHANGED <<pod, batch, claim, seenPod, pvcPod>>
        PROVE  PodInv'
    BY <1>0, <2>3 DEF PodInv, Listed
  <2>4. CASE OnPVAdd(c) \/ OnPVUpdate(c) \/ OnPVDelete(c) \/ OnPvcUpdate(c)
    BY <2>3, <2>4 DEF OnPVAdd, OnPVUpdate, OnPVDelete, OnPvcUpdate, PVHandled
  <2>5. CASE SchedulingPVC(c) \/ SchedulingPVCAgain(c) \/ CreateVolumeNamed(c)
    BY <2>3, <2>5 DEF SchedulingPVC, SchedulingPVCAgain, CreateVolumeNamed
  <2>6. CASE VolumeCreated(c) \/ VolumeFailed(c) \/ ExpandPV(c) \/ RemoveSelectedNode(c)
    BY <2>3, <2>6 DEF VolumeCreated, VolumeFailed, ExpandPV, RemoveSelectedNode
  <2> QED
    BY <1>3, <2>1, <2>2, <2>4, <2>5, <2>6 DEF NextClaim
<1>4. ASSUME NEW p \in Pods, NextPod(p)
      PROVE  PodInv'
  <2>1. CASE CreatePod(p)
    <3>1. /\ pod' = [pod EXCEPT ![p] = "pending"] /\ p \in batch
          /\ claim' = [c \in Claims |-> IF c \in Mounts(p) /\ claim[c] = "absent" THEN "pending"
                                        ELSE claim[c]]
          /\ UNCHANGED <<batch, seenPod, pvcPod>>
      BY <2>1 DEF CreatePod
    <3>2. ASSUME NEW q \in Pods, Listed(q) \/ q = p PROVE Listed(q)'
      BY <1>0, <3>1, <3>2, MountsAreClaims DEF Listed, TypeOK
    <3> QED
      BY <1>0, <3>1, <3>2 DEF PodInv, TypeOK
  <2>2. ASSUME PutPod(p) \/ UNCHANGED pvcPod, UNCHANGED <<pod, batch, claim>>, p \in batch,
               pod[p] # "absent", seenPod' = seenPod \cup {p} \/ UNCHANGED seenPod
        PROVE  PodInv'
    <3>1. \A c \in Claims : pvcPod'[c] = p \/ pvcPod'[c] = pvcPod[c]
      BY <2>2 DEF PutPod
    <3> QED
      BY <1>0, <2>2, <3>1 DEF PodInv, Listed
  <2>3. CASE OnPodAdd(p)
    BY <1>0, <2>2, <2>3 DEF OnPodAdd, PodHandled, PodInv
  <2>4. CASE OnPodUpdate(p)
    BY <1>0, <2>2, <2>4 DEF OnPodUpdate, PodHandled, PodInv
  <2>5. CASE OnPodDelete(p)
    <3>1. \A c \in Claims : pvcPod'[c] = None \/ pvcPod'[c] = pvcPod[c]
      BY <2>5 DEF OnPodDelete, ForgetPod
    <3>2. /\ pod' = [pod EXCEPT ![p] = "absent"] /\ seenPod' = seenPod \ {p}
          /\ UNCHANGED <<claim, batch>>
      BY <2>5 DEF OnPodDelete
    <3> QED
      BY <1>0, <3>1, <3>2 DEF PodInv, Listed, TypeOK
  <2>6. CASE Schedule(p)
    BY <1>0, <2>6 DEF Schedule, PodInv, Listed
  <2>7. CASE RunPod(p) \/ DeletePod(p)
    <3>1. /\ pod' = [pod EXCEPT ![p] = "running"] \/ pod' = [pod EXCEPT ![p] = "gone"]
          /\ pod[p] # "absent" /\ UNCHANGED <<claim, batch, seenPod, pvcPod>>
      BY <2>7 DEF RunPod, DeletePod
    <3> QED
      BY <1>0, <3>1 DEF PodInv, Listed, TypeOK
  <2> QED
    BY <1>4, <2>1, <2>3, <2>4, <2>5, <2>6, <2>7 DEF NextPod
<1> QED
  BY <1>1, <1>2, <1>3, <1>4 DEF Next

\* The claims of a pod stay together.
LEMMA TogetherStep ==
    ASSUME Faults = {}, PlacesCounted, ExtenderInv, Next
    PROVE  TogetherInv'
<1> USE DEF api, extender, seen
<1>0. TypeOK /\ TogetherInv /\ \A p \in batch : p \in Pods /\ Mounts(p) \subseteq Claims
  <2>1. TypeOK /\ TogetherInv /\ \A p \in batch : p \in Pods
    BY BatchAssumption DEF ExtenderInv, TypeOK
  <2> QED
    BY <2>1, MountsAreClaims
<1>1. ASSUME UNCHANGED <<used, batch>>,
             \A c \in Claims : claim'[c] = "pending" => /\ claim[c] = "pending"
                                                       /\ binding'[c] = binding[c]
      PROVE  TogetherInv'
  BY <1>0, <1>1 DEF TogetherInv
<1>2. CASE Restart
  BY <1>0, <1>2 DEF Restart, TogetherInv
<1>3. ASSUME NEW n \in Nodes, OnNodeLocalStorage(n) \/ ChangeNLS(n)
      PROVE  TogetherInv'
  BY <1>1, <1>3 DEF OnNodeLocalStorage, ChangeNLS
<1>4. ASSUME NEW c \in Claims, NextClaim(c)
      PROVE  TogetherInv'
  <2>0. InStage(c)
    BY DEF ExtenderInv
  <2>1. CASE OnPVAdd(c)
    <3>1. claim[c] # "pending"
      BY <1>0, <2>0, <2>1, StageOf DEF OnPVAdd, Bound
    <3>2. /\ \A d \in Claims : d # c => binding'[d] = binding[d]
          /\ UNCHANGED <<claim, used, batch>>
      BY <1>0, <2>1 DEF OnPVAdd, PVHandled, TypeOK
    <3> QED
      BY <1>1, <3>1, <3>2
  <2>2. CASE OnPVDelete(c)
    <3>1. claim[c] # "pending"
      BY <1>0, <2>0, <2>2, StageOf DEF OnPVDelete, Deleted
    <3>2. /\ \A d \in Claims : d # c => binding'[d] = binding[d]
          /\ UNCHANGED <<claim, used, batch>>
      BY <1>0, <2>2 DEF OnPVDelete, PVHandled, TypeOK
    <3> QED
      BY <1>1, <3>1, <3>2
  <2>3. CASE SchedulingPVC(c)
    <3> DEFINE n == selected[c]
               q == pvcPod[c]
               S == Unbound(q)
    <3>1. PICK a : Request(c, n, S, a)
      BY <2>3, RequestEffect
    <3>2. UNCHANGED <<claim, used, batch>> /\ q \in batch /\ S = {d \in Mounts(q) : claim[d] # "bound"}
      BY <1>0, <2>3 DEF SchedulingPVC, PodKnown, Unbound, ExtenderInv, PodInv
    <3> HIDE DEF n, S, q
    <3>3. \A d \in Claims : binding'[d] = IF d \in S THEN Unit(d, n, a[d]) ELSE binding[d]
      BY <3>1 DEF Request
    <3>4. \A d \in S : Unit(d, n, a[d]) # None
      BY <3>1, UnitIsPlace DEF Request
    <3>5. ASSUME NEW p \in batch, NEW x \in Mounts(p), NEW y \in Mounts(p),
                 claim[x] = "pending", claim[y] = "pending", binding'[x] = None
          PROVE  binding'[y] = None
      <4>1. x \in Claims /\ y \in Claims
        BY <1>0
      <4>2. x \notin S
        BY <3>3, <3>4, <3>5, <4>1
      <4>3. p # q
        BY <3>2, <3>5, <4>2
      <4>4. y \notin S
        BY <1>0, <3>2, <4>3, OnePod
      <4> QED
        BY <1>0, <3>3, <3>5, <4>1, <4>2, <4>4 DEF TogetherInv
    <3> QED
      BY <1>0, <3>2, <3>5 DEF TogetherInv
  <2>4. CASE BindPV(c) \/ DeleteClaim(c)
    <3>1. /\ \A d \in Claims : claim'[d] = claim[d] \/ claim'[d] # "pending"
          /\ UNCHANGED <<used, batch, binding>>
      BY <1>0, <2>4 DEF BindPV, DeleteClaim, TypeOK
    <3> QED
      BY <1>1, <3>1
  <2>5. CASE OnPVUpdate(c) \/ OnPvcUpdate(c)
    BY <1>1, <2>5 DEF OnPVUpdate, OnPvcUpdate, PVHandled
  <2>6. CASE SchedulingPVCAgain(c) \/ CreateVolumeNamed(c) \/ RemoveSelectedNode(c)
    BY <1>1, <2>6 DEF SchedulingPVCAgain, CreateVolumeNamed, RemoveSelectedNode
  <2>7. CASE VolumeCreated(c) \/ VolumeFailed(c) \/ ExpandPV(c)
    BY <1>1, <2>7 DEF VolumeCreated, VolumeFailed, ExpandPV
  <2> QED
    BY <1>4, <2>1, <2>2, <2>3, <2>4, <2>5, <2>6, <2>7 DEF NextClaim
<1>5. ASSUME NEW p \in Pods, NextPod(p)
      PROVE  TogetherInv'
  <2>1. CASE CreatePod(p)
    <3>1. /\ p \in batch /\ used' = used \cup Mounts(p) /\ UNCHANGED <<batch, binding>>
          /\ \A c \in Claims : claim'[c] = IF c \in Mounts(p) /\ claim[c] = "absent"
                                           THEN "pending" ELSE claim[c]
          /\ \A c \in Mounts(p) : claim[c] = "absent" => c \notin used
      BY <2>1 DEF CreatePod
    <3>2. ASSUME NEW q \in batch PROVE q = p \/ Mounts(q) \cap Mounts(p) = {}
      BY <1>0, <3>1, OnePod
    <3>3. ASSUME NEW q \in batch
          PROVE  Mounts(q) \subseteq used' \/ Mounts(q) \cap used' = {}
      BY <1>0, <3>1, <3>2 DEF TogetherInv
    <3>4. ASSUME NEW q \in batch, NEW x \in Mounts(q), NEW y \in Mounts(q),
                 claim'[x] = "pending", claim'[y] = "pending", binding[x] = None
          PROVE  binding[y] = None
      <4>1. x \in Claims /\ y \in Claims /\ InStage(x) /\ InStage(y)
        BY <1>0 DEF ExtenderInv
      <4>2. CASE claim[x] = "pending" /\ claim[y] = "pending"
        BY <1>0, <3>4, <4>2 DEF TogetherInv
      <4>3. CASE ~(claim[x] = "pending" /\ claim[y] = "pending")
        <5>1. (x \in Mounts(p) /\ x \notin used) \/ (y \in Mounts(p) /\ y \notin used)
          BY <3>1, <3>4, <4>1, <4>3
        <5>2. y \notin used
          BY <1>0, <5>1 DEF TogetherInv
        <5> QED
          BY <4>1, <5>2 DEF InStage, Absent
      <4> QED
        BY <4>2, <4>3
    <3> QED
      BY <3>1, <3>3, <3>4 DEF TogetherInv
  <2>2. CASE OnPodAdd(p) \/ OnPodUpdate(p) \/ OnPodDelete(p)
    BY <1>1, <2>2 DEF OnPodAdd, OnPodUpdate, OnPodDelete, PodHandled
  <2>3. CASE Schedule(p) \/ RunPod(p) \/ DeletePod(p)
    BY <1>1, <2>3 DEF Schedule, RunPod, DeletePod
  <2> QED
    BY <1>5, <2>1, <2>2, <2>3 DEF NextPod
<1> QED
  BY <1>2, <1>3, <1>4, <1>5 DEF Next

----------------------------------------------------------------------------
(* No two claims own a disk *)

\* A claim that asks owns the place its unit names, unless the claim has been bound
\* since before a restart and its volume is not seen yet.  A claim with a unit owns
\* the place it names.
LEMMA PlaceOf ==
    ASSUME TypeOK, NEW c \in Claims, InStage(c), NEW n, NEW w
    PROVE  /\ Asks(c) /\ Owns(c, n, w) => \/ binding[c] = Unit(c, n, w) /\ binding[c] # None
                                          \/ Bound(c) /\ seenPV[c] = None
           /\ binding[c] = Unit(c, n, w) /\ binding[c] # None => Owns(c, n, w)
<1>1. pv[c] # None => pv[c].node \in Nodes
  BY DEF TypeOK, Volumes
<1>2. CASE Absent(c)
  BY <1>2 DEF Absent, Owns
<1>3. CASE Waiting(c)
  <2>1. CASE binding[c] = None
    BY <1>3, <2>1 DEF Waiting, Owns
  <2>2. CASE binding[c] # None
    <3>1. PICK x \in Fitting(c) : binding[c] = Unit(c, selected[c], x)
      BY <1>3, <2>2 DEF Waiting
    <3>2. pv[c] = None
      BY <1>3 DEF Waiting
    <3> QED
      BY <2>2, <3>1, <3>2, UnitFields DEF Owns
  <2> QED
    BY <2>1, <2>2
<1>4. ASSUME NEW vol, vol.where \in Fitting(c), Backed(c, vol.node, vol.where), vol.node \in Nodes,
             \/ pv[c] # None /\ pv[c].node = vol.node /\ pv[c].where = vol.where
             \/ pv[c] = None
      PROVE  /\ Asks(c) /\ Owns(c, n, w) => binding[c] = Unit(c, n, w) /\ binding[c] # None
             /\ binding[c] = Unit(c, n, w) /\ binding[c] # None => Owns(c, n, w)
  <2>1. Unit(c, vol.node, vol.where) # None
    BY <1>4, UnitIsPlace
  <2>2. CASE binding[c] = None
    BY <1>4, <2>1, <2>2 DEF Backed
  <2>3. CASE binding[c] # None
    <3>1. binding[c] = Unit(c, vol.node, vol.where)
      BY <1>4, <2>3 DEF Backed
    <3>2. binding[c].node = vol.node /\ binding[c].where = vol.where
      BY <3>1, UnitFields
    <3> QED
      BY <1>4, <2>3, <3>1, <3>2, UnitFields DEF Owns
  <2> QED
    BY <2>2, <2>3
<1>5. CASE Made(c)
  BY <1>1, <1>4, <1>5 DEF Made
<1>6. CASE Bound(c)
  <2>1. CASE seenPV[c] = None
    BY <1>6, <2>1 DEF Bound
  <2>2. CASE seenPV[c] # None
    BY <1>1, <1>4, <1>6, <2>2 DEF Bound
  <2> QED
    BY <2>1, <2>2
<1>7. CASE Deleted(c)
  <2>1. seenPV[c].node \in Nodes
    BY <1>7 DEF TypeOK, Deleted, Volumes
  <2> QED
    BY <1>4, <1>7, <2>1 DEF Deleted
<1> QED
  BY <1>2, <1>3, <1>5, <1>6, <1>7 DEF InStage

\* No step gives a claim a disk that another one owns.
LEMMA OwnStep ==
    ASSUME Faults = {}, PlacesCounted, ExtenderInv, Next
    PROVE  OwnInv'
<1> USE DEF api, extender, seen
<1>0. TypeOK /\ OwnInv /\ \A d \in Claims : InStage(d)
  BY DEF ExtenderInv
<1>k. \A d \in Claims : Kind[d] # "LVM" => Asks(d)
  BY DEF Asks
<1>1. ASSUME \A d \in Claims : \A n, w : Kind[d] # "LVM" /\ Owns(d, n, w)' => Owns(d, n, w)
      PROVE  OwnInv'
  BY <1>0, <1>1 DEF OwnInv
<1>2. CASE Restart
  <2>1. \A d \in Claims : (binding[d] # None => pv[d] # None) /\ binding'[d] = None
    BY <1>2, OrderlyRestart
  <2>2. UNCHANGED pv
    BY <1>2 DEF Restart
  <2> QED
    BY <1>1, <2>1, <2>2 DEF Owns
<1>3. ASSUME NEW n \in Nodes, OnNodeLocalStorage(n) \/ ChangeNLS(n)
      PROVE  OwnInv'
  <2>1. UNCHANGED <<pv, binding>>
    BY <1>3 DEF OnNodeLocalStorage, ChangeNLS
  <2> QED
    BY <1>1, <2>1 DEF Owns
<1>4. ASSUME NEW p \in Pods, NextPod(p)
      PROVE  OwnInv'
  <2>1. UNCHANGED <<pv, binding>>
    BY <1>4 DEF NextPod, CreatePod, OnPodAdd, OnPodUpdate, OnPodDelete, PodHandled, Schedule,
                RunPod, DeletePod
  <2> QED
    BY <1>1, <2>1 DEF Owns
<1>5. ASSUME NEW c \in Claims, NextClaim(c)
      PROVE  OwnInv'
  <2>1. CASE OnPVAdd(c)
    <3>1. pv[c] # None /\ UNCHANGED pv /\ \A d \in Claims : d # c => binding'[d] = binding[d]
      BY <1>0, <2>1 DEF OnPVAdd, PVHandled, TypeOK
    <3> QED
      BY <1>1, <3>1 DEF Owns
  <2>2. CASE OnPVDelete(c)
    <3>1. /\ pv[c] = None /\ UNCHANGED pv
          /\ \A d \in Claims : d # c => binding'[d] = binding[d]
          /\ binding'[c] = binding[c] \/ binding'[c] = None
      BY <1>0, <2>2 DEF OnPVDelete, PVHandled, TypeOK
    <3> QED
      BY <1>1, <3>1 DEF Owns
  <2>3. CASE SchedulingPVC(c)
    <3> DEFINE n == selected[c]
               S == Unbound(pvcPod[c])
    <3>1. PICK a : Request(c, n, S, a)
      BY <2>3, RequestEffect
    <3>2. UNCHANGED pv /\ \A d \in Claims : Bound(d) => seenPV[d] # None
      BY <2>3 DEF SchedulingPVC, Synced, Bound
    <3> HIDE DEF n, S
    <3>3. ASSUME NEW d \in Claims, d \notin S, NEW m, NEW w, Owns(d, m, w)'
          PROVE  Owns(d, m, w)
      BY <3>1, <3>2, <3>3 DEF Request, Owns
    <3>4. ASSUME NEW d \in S, Kind[d] # "LVM", NEW m, NEW w, Owns(d, m, w)'
          PROVE  m = n /\ w = a[d]
      <4>1. /\ d \in Claims /\ claim[d] = "pending" /\ binding[d] = None /\ a[d] \in Fitting(d)
            /\ binding'[d] = Unit(d, n, a[d])
        BY <3>1, <3>4 DEF Request
      <4>2. pv[d] = None
        <5> SUFFICES ASSUME pv[d] # None PROVE FALSE
          OBVIOUS
        <5>1. Made(d) /\ Asks(d)
          BY <1>0, <1>k, <3>4, <4>1, StageOf
        <5>2. pv[d].node \in Nodes
          BY <1>0, <4>1 DEF TypeOK, Volumes
        <5>3. Unit(d, pv[d].node, pv[d].where) # None
          BY <4>1, <5>1, <5>2, UnitIsPlace DEF Made
        <5> QED
          BY <4>1, <5>1, <5>3 DEF Made, Backed
      <4>3. binding'[d].node = n /\ binding'[d].where = a[d]
        BY <4>1, UnitFields
      <4> QED
        BY <3>2, <3>4, <4>2, <4>3 DEF Owns
    <3>5. ASSUME NEW d \in S, Kind[d] # "LVM", NEW e \in Claims, Kind[e] # "LVM"
          PROVE  ~Owns(e, n, a[d])
      <4> SUFFICES ASSUME Owns(e, n, a[d]) PROVE FALSE
        OBVIOUS
      <4>1. /\ n \in Nodes /\ a[d] \in cache[n].disks /\ a[d] \notin cache[n].held
            /\ a[d] \in Disks
        BY <3>1, <3>5 DEF Request, Fitting
      <4>2. binding[e] = Unit(e, n, a[d])
        BY <1>0, <1>k, <3>2, <3>5, PlaceOf
      <4>3. HeldInv(n)
        BY <4>1 DEF ExtenderInv, NodeInv
      <4> QED
        BY <3>5, <4>1, <4>2, <4>3 DEF HeldInv
    <3>6. ASSUME NEW d \in Claims, NEW e \in Claims, NEW m, NEW w, Kind[d] # "LVM",
                 Kind[e] # "LVM", d # e, Owns(d, m, w)', Owns(e, m, w)'
          PROVE  FALSE
      <4>1. CASE d \in S /\ e \in S
        <5>1. a[d] = a[e]
          BY <3>4, <3>6, <4>1
        <5> QED
          BY <3>1, <3>6, <4>1, <5>1 DEF Request
      <4>2. CASE d \in S /\ e \notin S
        BY <3>3, <3>4, <3>5, <3>6, <4>2
      <4>3. CASE d \notin S /\ e \in S
        BY <3>3, <3>4, <3>5, <3>6, <4>3
      <4>4. CASE d \notin S /\ e \notin S
        BY <1>0, <3>3, <3>6, <4>4 DEF OwnInv
      <4> QED
        BY <4>1, <4>2, <4>3, <4>4
    <3> QED
      BY <3>6 DEF OwnInv
  <2>4. CASE VolumeCreated(c)
    <3>1. /\ UNCHANGED binding /\ \A d \in Claims : d # c => pv'[d] = pv[d]
          /\ pv'[c].node = answer[c].target /\ pv'[c].where = answer[c].unit.where
          /\ answer[c] # None
      BY <1>0, <2>4 DEF VolumeCreated, TypeOK
    <3>2. ASSUME NEW m, NEW w, Kind[c] # "LVM", Owns(c, m, w)' PROVE Owns(c, m, w)
      <4>1. Waiting(c) /\ Asks(c)
        BY <1>0, <1>k, <3>1, <3>2, StageOf
      <4>2. PICK x \in Fitting(c) :
               /\ answer[c] = [target |-> selected[c], unit |-> Unit(c, selected[c], x)]
               /\ Backed(c, selected[c], x)
        BY <3>1, <4>1 DEF Waiting
      <4>3. answer[c].target = selected[c] /\ answer[c].unit.where = x
        BY <4>2, UnitFields
      <4>4. selected[c] \in Nodes
        BY <1>0, <3>1, <4>3 DEF TypeOK, Answers
      <4>5. binding[c] = Unit(c, selected[c], x) /\ binding[c] # None
        BY <4>1, <4>2, <4>4, UnitIsPlace DEF Backed
      <4>6. pv'[c] # None
        <5>1. TypeOK'
          BY <1>0, <1>5, ClaimStepType
        <5>2. pv'[c] \in Volumes
          BY <1>0, <2>4, SizeAssumption DEF TypeOK, VolumeCreated, Volumes, Answers, Places
        <5> QED
          BY <5>2, NoneAssumption
      <4>7. m = selected[c] /\ w = x
        BY <3>1, <3>2, <4>3, <4>6 DEF Owns
      <4> QED
        BY <1>0, <4>5, <4>7, PlaceOf
    <3> QED
      BY <1>1, <3>1, <3>2 DEF Owns
  <2>5. CASE BindPV(c) \/ ExpandPV(c)
    <3>1. pv' = [pv EXCEPT ![c].phase = "bound"] \/ pv' = [pv EXCEPT ![c].size = @ + 1]
      BY <2>5 DEF BindPV, ExpandPV
    <3>2. /\ UNCHANGED binding /\ \A d \in Claims : d # c => pv'[d] = pv[d]
          /\ pv[c] # None
      BY <1>0, <2>5 DEF BindPV, ExpandPV, TypeOK
    <3>3. pv'[c].node = pv[c].node /\ pv'[c].where = pv[c].where
      BY <1>0, <3>1, <3>2 DEF TypeOK, Volumes
    <3>4. ASSUME NEW m, NEW w, Owns(c, m, w)' PROVE Owns(c, m, w)
      <4>1. pv'[c] # None
        <5>1. pv'[c] \in Volumes
          BY <1>0, <2>5, <3>2, MaxSizeAssumption
          DEF TypeOK, BindPV, ExpandPV, Volumes, Sizes
        <5> QED
          BY <5>1, NoneAssumption
      <4> QED
        BY <3>2, <3>3, <3>4, <4>1 DEF Owns
    <3> QED
      BY <1>1, <3>2, <3>4 DEF Owns
  <2>6. CASE DeleteClaim(c)
    <3>1. /\ UNCHANGED binding /\ \A d \in Claims : d # c => pv'[d] = pv[d]
          /\ pv'[c] = None
      BY <1>0, <2>6 DEF DeleteClaim, TypeOK
    <3>2. ASSUME NEW m, NEW w, Kind[c] # "LVM", Owns(c, m, w)' PROVE Owns(c, m, w)
      <4>1. CASE pv[c] = None
        BY <3>1, <3>2, <4>1 DEF Owns
      <4>2. CASE pv[c] # None
        <5>1. Bound(c) /\ seenPV[c] # None /\ binding[c] # None
          BY <1>0, <2>6, <3>1, <3>2, <4>2, StageOf DEF DeleteClaim, Owns
        <5>2. binding[c] = Unit(c, pv[c].node, pv[c].where)
          BY <5>1 DEF Bound, Backed
        <5>3. m = pv[c].node /\ w = pv[c].where
          BY <3>1, <3>2, <5>2, UnitFields DEF Owns
        <5> QED
          BY <4>2, <5>3 DEF Owns
      <4> QED
        BY <4>1, <4>2
    <3> QED
      BY <1>1, <3>1, <3>2 DEF Owns
  <2>7. CASE UNCHANGED <<pv, binding>>
    BY <1>1, <2>7 DEF Owns
  <2>8. CASE OnPVUpdate(c) \/ OnPvcUpdate(c) \/ SchedulingPVCAgain(c)
    BY <2>7, <2>8 DEF OnPVUpdate, PVHandled, OnPvcUpdate, SchedulingPVCAgain
  <2>9. CASE CreateVolumeNamed(c) \/ VolumeFailed(c) \/ RemoveSelectedNode(c)
    BY <2>7, <2>9 DEF CreateVolumeNamed, VolumeFailed, RemoveSelectedNode
  <2> QED
    BY <1>5, <2>1, <2>2, <2>3, <2>4, <2>5, <2>6, <2>8, <2>9 DEF NextClaim
<1> QED
  BY <1>2, <1>3, <1>4, <1>5 DEF Next

----------------------------------------------------------------------------
(* What the handlers do to a node cache *)

\* x is the node cache nc after the volume of c became vol (None: it is gone), with
\* the amount charged to the volume group w and the disks that are held.
VolumeChange(x, nc, c, vol, w, amount, held) ==
    /\ x.vgs = nc.vgs /\ x.cap = nc.cap /\ x.disks = nc.disks /\ x.records = nc.records
    /\ x.inline = nc.inline /\ x.held = held
    /\ x.localPVs = [nc.localPVs EXCEPT ![c] = vol]
    /\ \A v \in VGs : x.req[v] = IF v \in nc.vgs /\ v = w THEN nc.req[v] + amount ELSE nc.req[v]

\* A charge changes one entry of Requested and nothing else.
LEMMA ChargeFields ==
    ASSUME NEW nc \in NodeCaches, NEW w, NEW size \in Int, NEW x, x = Charge(nc, w, size)
    PROVE  /\ x.known = nc.known /\ x.vgs = nc.vgs /\ x.cap = nc.cap /\ x.disks = nc.disks
           /\ x.held = nc.held /\ x.records = nc.records /\ x.inline = nc.inline
           /\ x.localPVs = nc.localPVs /\ x \in NodeCaches
           /\ \A v \in VGs : x.req[v] = IF v \in nc.vgs /\ v = w THEN nc.req[v] + size
                                        ELSE nc.req[v]
<1>1. x \in NodeCaches
  BY ChargeType
<1>2. CASE w \in nc.vgs
  <2>1. x = [nc EXCEPT !.req = [nc.req EXCEPT ![w] = nc.req[w] + size]]
    BY <1>2 DEF Charge
  <2>2. w \in VGs
    BY <1>2 DEF NodeCaches
  <2> DEFINE q == [nc.req EXCEPT ![w] = nc.req[w] + size]
  <2>3. \A v \in VGs : q[v] = IF v \in nc.vgs /\ v = w THEN nc.req[v] + size ELSE nc.req[v]
    BY <1>2, <2>2 DEF NodeCaches
  <2> HIDE DEF q
  <2>4. /\ x.known = nc.known /\ x.vgs = nc.vgs /\ x.cap = nc.cap /\ x.disks = nc.disks
        /\ x.held = nc.held /\ x.records = nc.records /\ x.inline = nc.inline
        /\ x.localPVs = nc.localPVs /\ x.req = q
    BY <2>1 DEF NodeCaches, q
  <2> QED
    BY <1>1, <2>3, <2>4
<1>3. CASE w \notin nc.vgs
  <2>1. x = nc
    BY <1>3 DEF Charge
  <2> QED
    BY <1>1, <1>3, <2>1
<1> QED
  BY <1>2, <1>3

WithVolume(nc, c, vol) == [nc EXCEPT !.localPVs[c] = vol]

\* A charge followed by a change of the entry of c in the local volumes.
LEMMA ChargedVolume ==
    ASSUME NEW nc \in NodeCaches, NEW c \in Claims, NEW vol, NEW w, NEW size \in Int
    PROVE  /\ VolumeChange(WithVolume(Charge(nc, w, size), c, vol), nc, c, vol, w, size, nc.held)
           /\ WithVolume(Charge(nc, w, size), c, vol).known = nc.known
<1> DEFINE y == Charge(nc, w, size)
           x == WithVolume(Charge(nc, w, size), c, vol)
<1>1. /\ y.known = nc.known /\ y.vgs = nc.vgs /\ y.cap = nc.cap /\ y.disks = nc.disks
      /\ y.held = nc.held /\ y.records = nc.records /\ y.inline = nc.inline
      /\ y.localPVs = nc.localPVs /\ y \in NodeCaches
      /\ \A v \in VGs : y.req[v] = IF v \in nc.vgs /\ v = w THEN nc.req[v] + size ELSE nc.req[v]
  BY ChargeFields
<1>2. x = [y EXCEPT !.localPVs = [y.localPVs EXCEPT ![c] = vol]]
  BY DEF WithVolume
<1> HIDE DEF x, y
<1>3. /\ x.known = y.known /\ x.vgs = y.vgs /\ x.cap = y.cap /\ x.disks = y.disks
      /\ x.held = y.held /\ x.records = y.records /\ x.inline = y.inline /\ x.req = y.req
      /\ x.localPVs = [y.localPVs EXCEPT ![c] = vol]
  BY <1>1, <1>2 DEF NodeCaches
<1>4. VolumeChange(x, nc, c, vol, w, size, nc.held) /\ x.known = nc.known
  BY <1>1, <1>3 DEF VolumeChange
<1> QED
  BY <1>4 DEF x

\* What UpdateLVM changes.
LEMMA UpdateFields ==
    ASSUME NEW nc \in NodeCaches, NEW c \in Claims, NEW vol \in Volumes, NEW old \in Volumes,
           NEW size, size = IF IsPVAllocated(nc, c) THEN vol.size - old.size ELSE vol.size
    PROVE  /\ VolumeChange(UpdateLVM(nc, c, old, vol), nc, c, vol, vol.where, size, nc.held)
           /\ UpdateLVM(nc, c, old, vol).known = nc.known
<1>1. size \in Int
  BY MaxSizeAssumption DEF Volumes, Sizes
<1>2. UpdateLVM(nc, c, old, vol) = WithVolume(Charge(nc, vol.where, size), c, vol)
  BY Zenon DEF UpdateLVM, WithVolume
<1> QED
  BY <1>1, <1>2, ChargedVolume

\* What AddLVM, RemoveLVM, AddDisk and RemoveDisk change.
LEMMA VolumeFields ==
    ASSUME NEW nc \in NodeCaches, NEW c \in Claims, NEW vol \in Volumes, NEW x
    PROVE  /\ x = AddLVM(nc, c, vol) =>
                /\ VolumeChange(x, nc, c, vol, vol.where, vol.size, nc.held)
                /\ x.known = nc.known
           /\ x = RemoveLVM(nc, c, vol) =>
                /\ VolumeChange(x, nc, c, None, vol.where, 0 - vol.size, nc.held)
                /\ x.known = nc.known
           /\ x = AddDisk(nc, c, vol) =>
                /\ VolumeChange(x, nc, c, vol, None, 0, nc.held \cup ({vol.where} \cap nc.disks))
                /\ x.known = nc.known
           /\ x = RemoveDisk(nc, c, vol) =>
                /\ VolumeChange(x, nc, c, None, None, 0, nc.held \ {vol.where})
                /\ x.known = nc.known
<1>1. vol.size \in Int
  BY MaxSizeAssumption DEF Volumes, Sizes
<1>2. ASSUME x = AddLVM(nc, c, vol)
      PROVE  /\ VolumeChange(x, nc, c, vol, vol.where, vol.size, nc.held) /\ x.known = nc.known
  <2>1. x = WithVolume(Charge(nc, vol.where, vol.size), c, vol)
    BY <1>2, Zenon DEF AddLVM, WithVolume
  <2> QED
    BY <1>1, <2>1, ChargedVolume
<1>4. ASSUME x = RemoveLVM(nc, c, vol)
      PROVE  /\ VolumeChange(x, nc, c, None, vol.where, 0 - vol.size, nc.held)
             /\ x.known = nc.known
  <2> DEFINE size == 0 - vol.size
  <2>1. size \in Int
    BY <1>1
  <2>2. x = WithVolume(Charge(nc, vol.where, size), c, None)
    BY <1>4, Zenon DEF RemoveLVM, WithVolume
  <2> HIDE DEF size
  <2>3. VolumeChange(x, nc, c, None, vol.where, size, nc.held) /\ x.known = nc.known
    BY <2>1, <2>2, ChargedVolume
  <2> QED
    BY <2>3, Zenon DEF size
<1>5. \A v \in VGs : v # None
  BY StorageAssumption
<1>6. ASSUME x = AddDisk(nc, c, vol)
      PROVE  /\ VolumeChange(x, nc, c, vol, None, 0, nc.held \cup ({vol.where} \cap nc.disks))
             /\ x.known = nc.known
  <2> DEFINE h == nc.held \cup ({vol.where} \cap nc.disks)
             l == [nc.localPVs EXCEPT ![c] = vol]
  <2>1. x = [nc EXCEPT !.held = h, !.localPVs = l]
    BY <1>6 DEF AddDisk, AddLocalDevice, AddLocalMountPoint
  <2> HIDE DEF h, l
  <2>2. /\ x.vgs = nc.vgs /\ x.cap = nc.cap /\ x.disks = nc.disks /\ x.records = nc.records
        /\ x.inline = nc.inline /\ x.known = nc.known /\ x.req = nc.req
        /\ x.held = h /\ x.localPVs = l
    BY <2>1 DEF NodeCaches
  <2>3. \A v \in VGs : x.req[v] = IF v \in nc.vgs /\ v = None THEN nc.req[v] + 0 ELSE nc.req[v]
    BY <1>5, <2>2
  <2> QED
    BY <2>2, <2>3, Zenon DEF VolumeChange, h, l
<1>7. ASSUME x = RemoveDisk(nc, c, vol)
      PROVE  /\ VolumeChange(x, nc, c, None, None, 0, nc.held \ {vol.where})
             /\ x.known = nc.known
  <2> DEFINE h == nc.held \ {vol.where}
             l == [nc.localPVs EXCEPT ![c] = None]
  <2>1. x = [nc EXCEPT !.held = h, !.localPVs = l]
    BY <1>7 DEF RemoveDisk, RemoveLocalDevice, RemoveLocalMountPoint
  <2> HIDE DEF h, l
  <2>2. /\ x.vgs = nc.vgs /\ x.cap = nc.cap /\ x.disks = nc.disks /\ x.records = nc.records
        /\ x.inline = nc.inline /\ x.known = nc.known /\ x.req = nc.req
        /\ x.held = h /\ x.localPVs = l
    BY <2>1 DEF NodeCaches
  <2>3. \A v \in VGs : x.req[v] = IF v \in nc.vgs /\ v = None THEN nc.req[v] + 0 ELSE nc.req[v]
    BY <1>5, <2>2
  <2> QED
    BY <2>2, <2>3, Zenon DEF VolumeChange, h, l
<1> QED
  BY <1>2, <1>4, <1>6, <1>7, Zenon

\* An event of the volume of c on node n: its entry becomes vol.  A volume of an LVM
\* claim changes the charge of its group by amount; a disk is then held, or free.
VolumeEvent(c, n, vol, w, amount, held) ==
    /\ n \in Nodes /\ cache'[n].known
    /\ \A m \in Nodes : m # n => cache'[m] = cache[m]
    /\ Kind[c] = "LVM" => VolumeChange(cache'[n], cache[n], c, vol, w, amount, cache[n].held)
    /\ Kind[c] # "LVM" => VolumeChange(cache'[n], cache[n], c, vol, None, 0, held)
    /\ seenPV'[c] = pv[c]
    /\ \A d \in Claims : d # c => seenPV'[d] = seenPV[d] /\ binding'[d] = binding[d]
    /\ UNCHANGED <<pod, podNode, claim, pv, nls, used, seenPod, seenNLS>>

\* The fields of the node cache a handler works on.
LEMMA GotFields ==
    ASSUME cache \in [Nodes -> NodeCaches], NEW n \in Nodes, NEW x, x = Got(n)
    PROVE  /\ x.known /\ x.vgs = cache[n].vgs /\ x.cap = cache[n].cap /\ x.disks = cache[n].disks
           /\ x.held = cache[n].held /\ x.records = cache[n].records
           /\ x.inline = cache[n].inline /\ x.localPVs = cache[n].localPVs
           /\ x.req = cache[n].req /\ x \in NodeCaches
<1>1. cache[n] \in NodeCaches
  OBVIOUS
<1> QED
  BY <1>1 DEF Got, NodeCaches

\* onPVAdd meets a bound volume that nothing was charged for: one from before a restart.
LEMMA AddEvent ==
    ASSUME Faults = {}, ExtenderInv, NEW c \in Claims, OnPVAdd(c)
    PROVE  /\ Bound(c) /\ seenPV[c] = None /\ binding[c] = None
           /\ pv[c] \in Volumes /\ binding'[c] = Unit(c, pv[c].node, pv[c].where)
           /\ VolumeEvent(c, pv[c].node, pv[c], pv[c].where, pv[c].size,
                cache[pv[c].node].held \cup ({pv[c].where} \cap cache[pv[c].node].disks))
<1> DEFINE n == pv[c].node
           nc == Got(n)
           x == cache'[n]
<1>0. TypeOK /\ InStage(c)
  BY DEF ExtenderInv
<1>1. Bound(c) /\ seenPV[c] = None /\ binding[c] = None
  BY <1>0, StageOf DEF OnPVAdd, Bound
<1>2. pv[c] \in Volumes /\ n \in Nodes /\ pv[c].phase = "bound"
  BY <1>0, <1>1 DEF TypeOK, Bound, Volumes
<1>3. /\ cache' = [cache EXCEPT ![n] = IF Kind[c] = "LVM" THEN AddLVM(Got(n), c, pv[c])
                                       ELSE AddDisk(Got(n), c, pv[c])]
      /\ binding' = [binding EXCEPT ![c] = Unit(c, n, pv[c].where)]
  BY <1>2 DEF OnPVAdd
<1>4. cache \in [Nodes -> NodeCaches] /\ binding \in [Claims -> Places \cup {None}]
  BY <1>0 DEF TypeOK
<1>5. /\ nc.known /\ nc.vgs = cache[n].vgs /\ nc.cap = cache[n].cap /\ nc.disks = cache[n].disks
      /\ nc.held = cache[n].held /\ nc.records = cache[n].records
      /\ nc.inline = cache[n].inline /\ nc.localPVs = cache[n].localPVs
      /\ nc.req = cache[n].req /\ nc \in NodeCaches
  BY <1>2, <1>4, GotFields
<1>6. x = IF Kind[c] = "LVM" THEN AddLVM(nc, c, pv[c]) ELSE AddDisk(nc, c, pv[c])
  BY <1>2, <1>3, <1>4
<1>7. \A m \in Nodes : m # n => cache'[m] = cache[m]
  BY <1>3, <1>4
<1> HIDE DEF nc, x
<1>8. /\ x.known
      /\ Kind[c] = "LVM" => VolumeChange(x, nc, c, pv[c], pv[c].where, pv[c].size, nc.held)
      /\ Kind[c] # "LVM" => VolumeChange(x, nc, c, pv[c], None, 0,
                                         nc.held \cup ({pv[c].where} \cap nc.disks))
  <2>1. CASE Kind[c] = "LVM"
    <3>1. x = AddLVM(nc, c, pv[c])
      BY <1>6, <2>1
    <3> QED
      BY <1>2, <1>5, <2>1, <3>1, VolumeFields, Zenon
  <2>2. CASE Kind[c] # "LVM"
    <3>1. x = AddDisk(nc, c, pv[c])
      BY <1>6, <2>2
    <3> QED
      BY <1>2, <1>5, <2>2, <3>1, VolumeFields, Zenon
  <2> QED
    BY <2>1, <2>2
<1> DEFINE h == cache[n].held \cup ({pv[c].where} \cap cache[n].disks)
<1>9. /\ Kind[c] = "LVM" => VolumeChange(x, cache[n], c, pv[c], pv[c].where, pv[c].size,
                                         cache[n].held)
      /\ Kind[c] # "LVM" => VolumeChange(x, cache[n], c, pv[c], None, 0, h)
  BY <1>5, <1>8 DEF VolumeChange
<1>10. /\ UNCHANGED <<pod, podNode, claim, pv, nls, used, seenPod, seenNLS>>
       /\ seenPV'[c] = pv[c] /\ \A d \in Claims : d # c => seenPV'[d] = seenPV[d]
  BY <1>0 DEF OnPVAdd, PVHandled, SeePV, TypeOK, api
<1>11. /\ binding'[c] = Unit(c, n, pv[c].where)
       /\ \A d \in Claims : d # c => binding'[d] = binding[d]
  BY <1>3, <1>4
<1>12. VolumeEvent(c, n, pv[c], pv[c].where, pv[c].size, h)
  BY <1>2, <1>7, <1>8, <1>9, <1>10, <1>11, Zenon DEF VolumeEvent, x
<1> QED
  BY <1>1, <1>2, <1>11, <1>12, Zenon

\* onPVUpdate meets a bound volume whose node is known.
LEMMA UpdateEvent ==
    ASSUME Faults = {}, ExtenderInv, NEW c \in Claims, OnPVUpdate(c)
    PROVE  /\ Bound(c) /\ seenPV[c] # None /\ UNCHANGED binding
           /\ pv[c] \in Volumes /\ seenPV[c] \in Volumes
           /\ VolumeEvent(c, pv[c].node, pv[c], pv[c].where,
                IF IsPVAllocated(cache[pv[c].node], c) THEN pv[c].size - seenPV[c].size
                ELSE pv[c].size,
                cache[pv[c].node].held \cup ({pv[c].where} \cap cache[pv[c].node].disks))
<1> DEFINE n == pv[c].node
           nc == cache[n]
           x == cache'[n]
           amount == IF IsPVAllocated(nc, c) THEN pv[c].size - seenPV[c].size ELSE pv[c].size
           h == nc.held \cup ({pv[c].where} \cap nc.disks)
<1>0. TypeOK /\ InStage(c)
  BY DEF ExtenderInv
<1>1. Bound(c) /\ seenPV[c] # None
  BY <1>0, StageOf DEF OnPVUpdate
<1>2. /\ pv[c] \in Volumes /\ n \in Nodes /\ pv[c].phase = "bound" /\ seenPV[c] \in Volumes
      /\ nc \in NodeCaches
  BY <1>0, <1>1 DEF TypeOK, Bound, Volumes
<1>3. nc.known
  <2>1. StatusInv(n)
    BY <1>2 DEF ExtenderInv, NodeInv
  <2> QED
    BY <1>1, <1>2, <2>1 DEF StatusInv, Bound
<1>4. cache' = [cache EXCEPT ![n] = IF Kind[c] = "LVM" THEN UpdateLVM(nc, c, seenPV[c], pv[c])
                                    ELSE AddDisk(nc, c, pv[c])]
  BY <1>2, <1>3 DEF OnPVUpdate
<1>5. cache \in [Nodes -> NodeCaches]
  BY <1>0 DEF TypeOK
<1>6. x = IF Kind[c] = "LVM" THEN UpdateLVM(nc, c, seenPV[c], pv[c]) ELSE AddDisk(nc, c, pv[c])
  BY <1>2, <1>4, <1>5
<1>7. \A m \in Nodes : m # n => cache'[m] = cache[m]
  BY <1>4, <1>5
<1> HIDE DEF x, nc
<1>8. /\ x.known
      /\ Kind[c] = "LVM" => VolumeChange(x, nc, c, pv[c], pv[c].where, amount, nc.held)
      /\ Kind[c] # "LVM" => VolumeChange(x, nc, c, pv[c], None, 0, h)
  <2>1. CASE Kind[c] = "LVM"
    <3>1. x = UpdateLVM(nc, c, seenPV[c], pv[c])
      BY <1>6, <2>1
    <3>2. amount = IF IsPVAllocated(nc, c) THEN pv[c].size - seenPV[c].size ELSE pv[c].size
      OBVIOUS
    <3> HIDE DEF amount
    <3>3. VolumeChange(x, nc, c, pv[c], pv[c].where, amount, nc.held) /\ x.known = nc.known
      BY <1>2, <3>1, <3>2, UpdateFields
    <3> QED
      BY <1>3, <2>1, <3>3
  <2>2. CASE Kind[c] # "LVM"
    <3>1. x = AddDisk(nc, c, pv[c])
      BY <1>6, <2>2
    <3> QED
      BY <1>2, <1>3, <2>2, <3>1, VolumeFields, Zenon
  <2> QED
    BY <2>1, <2>2
<1>9. /\ UNCHANGED <<pod, podNode, claim, pv, nls, used, seenPod, seenNLS, binding>>
      /\ seenPV'[c] = pv[c] /\ \A d \in Claims : d # c => seenPV'[d] = seenPV[d]
  BY <1>0 DEF OnPVUpdate, PVHandled, SeePV, TypeOK, api
<1>10. VolumeEvent(c, n, pv[c], pv[c].where, amount, h)
  BY <1>2, <1>7, <1>8, <1>9, Zenon DEF VolumeEvent, x, nc
<1> QED
  BY <1>1, <1>2, <1>9, <1>10, Zenon DEF nc

\* onPVDelete meets a volume that was charged.
LEMMA DeleteEvent ==
    ASSUME Faults = {}, ExtenderInv, NEW c \in Claims, OnPVDelete(c)
    PROVE  /\ Deleted(c) /\ seenPV[c] \in Volumes /\ binding'[c] = None
           /\ VolumeEvent(c, seenPV[c].node, None, seenPV[c].where, 0 - seenPV[c].size,
                          cache[seenPV[c].node].held \ {seenPV[c].where})
<1> DEFINE vol == seenPV[c]
           n == vol.node
           nc == cache[n]
           x == cache'[n]
<1>0. TypeOK /\ InStage(c)
  BY DEF ExtenderInv
<1>1. Deleted(c)
  BY <1>0, StageOf DEF OnPVDelete
<1>2. vol \in Volumes /\ n \in Nodes /\ nc \in NodeCaches
  BY <1>0, <1>1 DEF TypeOK, Deleted, Volumes
<1>3. nc.known
  <2>1. StatusInv(n)
    BY <1>2 DEF ExtenderInv, NodeInv
  <2> QED
    BY <1>1, <1>2, <2>1 DEF StatusInv, Deleted, OnNode
<1>4. /\ cache' = [cache EXCEPT ![n] = IF Kind[c] = "LVM" THEN RemoveLVM(nc, c, vol)
                                       ELSE RemoveDisk(nc, c, vol)]
      /\ binding' = [binding EXCEPT ![c] = None]
  BY <1>2, <1>3 DEF OnPVDelete
<1>5. cache \in [Nodes -> NodeCaches] /\ binding \in [Claims -> Places \cup {None}]
  BY <1>0 DEF TypeOK
<1>6. x = IF Kind[c] = "LVM" THEN RemoveLVM(nc, c, vol) ELSE RemoveDisk(nc, c, vol)
  BY <1>2, <1>4, <1>5
<1>7. \A m \in Nodes : m # n => cache'[m] = cache[m]
  BY <1>4, <1>5
<1> HIDE DEF x, nc
<1>8. /\ x.known
      /\ Kind[c] = "LVM" => VolumeChange(x, nc, c, None, vol.where, 0 - vol.size, nc.held)
      /\ Kind[c] # "LVM" => VolumeChange(x, nc, c, None, None, 0, nc.held \ {vol.where})
  BY <1>2, <1>3, <1>6, VolumeFields, Zenon
<1>9. /\ UNCHANGED <<pod, podNode, claim, pv, nls, used, seenPod, seenNLS>>
      /\ seenPV'[c] = pv[c] /\ \A d \in Claims : d # c => seenPV'[d] = seenPV[d]
  BY <1>0 DEF OnPVDelete, PVHandled, SeePV, TypeOK, api
<1>10. binding'[c] = None /\ \A d \in Claims : d # c => binding'[d] = binding[d]
  BY <1>4, <1>5
<1>11. VolumeEvent(c, n, None, vol.where, 0 - vol.size, nc.held \ {vol.where})
  BY <1>2, <1>7, <1>8, <1>9, <1>10, Zenon DEF VolumeEvent, x, nc
<1> QED
  BY <1>1, <1>2, <1>10, <1>11, Zenon DEF nc

----------------------------------------------------------------------------
(* Steps that leave the cache of a node alone *)

\* What a claim takes is a size or nothing.
LEMMA TakenType ==
    ASSUME TypeOK, NEW n, NEW v, NEW c \in Claims
    PROVE  Taken(n, v, c) \in 0..MaxSize
  BY SizeAssumption, MaxSizeAssumption DEF Taken, OnNode, TypeOK, Volumes, Sizes

\* What is taken from a volume group, and what the inline volumes take, are numbers.
LEMMA TakenTotal ==
    ASSUME TypeOK, NEW n, NEW v
    PROVE  /\ TakenOn(n, v) \in [Claims -> 0..MaxSize] /\ Total(TakenOn(n, v)) \in Nat
           /\ InlineOn(n, v) \in [Pods -> 0..MaxSize] /\ Total(InlineOn(n, v)) \in Nat
<1>1. TakenOn(n, v) \in [Claims -> 0..MaxSize]
  BY TakenType DEF TakenOn
<1>2. InlineOn(n, v) \in [Pods -> 0..MaxSize]
  BY PodAssumption, MaxSizeAssumption DEF InlineOn, Sizes
<1> QED
  BY <1>1, <1>2, TotalType, StorageAssumption, PodAssumption

\* A step that leaves the cache of m alone, and with it all that the cache mirrors.
SameNode(m) ==
    /\ cache'[m] = cache[m] /\ seenNLS'[m] = seenNLS[m] /\ used \subseteq used'
    /\ \A v \in VGs : nls[m].cap[v] <= nls'[m].cap[v]
    /\ \A c \in Claims :
          /\ OnNode(c, m)' <=> OnNode(c, m)
          /\ OnNode(c, m) => seenPV'[c] = seenPV[c]
          /\ \A w \in VGs \cup Disks : binding'[c] = Unit(c, m, w) <=> binding[c] = Unit(c, m, w)
          /\ binding'[c] # None /\ binding'[c].node = m => binding'[c] = binding[c]
          /\ cache[m].records[c] # None /\ claim'[c] # "absent"
                => claim[c] # "absent" /\ binding'[c] = binding[c]
          /\ pv'[c] # None /\ pv'[c].phase = "bound" /\ pv'[c].node = m /\ seenPV'[c] # None
                => cache[m].known
    /\ \A p \in Pods : cache[m].inline[p] # "none" =>
          podNode'[p] = m /\ pod'[p] \in {"running", "gone"} /\ p \in seenPod'

\* Such a step keeps the invariant of the node.
LEMMA SameNodeStep ==
    ASSUME TypeOK, TypeOK', NEW m \in Nodes, NodeInv(m), SameNode(m)
    PROVE  NodeInv(m)'
<1>1. VolumesInv(m)'
  BY DEF NodeInv, VolumesInv, SameNode
<1>2. RecordsInv(m)'
  BY DEF NodeInv, RecordsInv, SameNode
<1>3. StatusInv(m)'
  <2>1. \A v \in VGs : /\ cache[m].cap[v] \in Int /\ nls[m].cap[v] \in Int
                       /\ nls'[m].cap[v] \in Int
    BY DEF TypeOK, NodeCaches, Statuses
  <2>2. ~cache'[m].known => cache'[m] = NewNodeCache
    BY DEF NodeInv, StatusInv, SameNode
  <2>3. seenNLS'[m] = None => /\ cache'[m].vgs = {}
                              /\ \A c \in Claims : cache'[m].records[c] = None
                              /\ \A p \in Pods : cache'[m].inline[p] = "none"
    BY DEF NodeInv, StatusInv, SameNode
  <2>4. seenNLS'[m] # None => /\ cache'[m].known /\ cache'[m].vgs = VGs
                              /\ \A v \in VGs : cache'[m].cap[v] <= nls'[m].cap[v]
    BY <2>1 DEF NodeInv, StatusInv, SameNode
  <2>5. \A c \in Claims : 
          /\ pv'[c] # None /\ pv'[c].phase = "bound" /\ pv'[c].node = m /\ seenPV'[c] # None
                => cache'[m].known
          /\ OnNode(c, m)' => cache'[m].known
    BY DEF NodeInv, StatusInv, SameNode
  <2> QED
    BY <2>2, <2>3, <2>4, <2>5 DEF StatusInv
<1>4. InlineInv(m)'
  BY DEF NodeInv, InlineInv, SameNode
<1>5. HeldInv(m)'
  <2>1. cache[m].held \subseteq Disks
    BY DEF TypeOK, NodeCaches
  <2> QED
    BY <2>1 DEF NodeInv, HeldInv, SameNode
<1>6. LedgerInv(m)'
  <2>1. \A v \in VGs : \A c \in Claims : Taken(m, v, c)' = Taken(m, v, c)
    BY DEF SameNode, Taken
  <2>2. \A v \in VGs : TakenOn(m, v)' = TakenOn(m, v)
    BY <2>1 DEF TakenOn
  <2>3. \A v \in VGs : InlineOn(m, v)' = InlineOn(m, v)
    BY DEF InlineOn, SameNode
  <2>4. cache'[m] = cache[m]
    BY DEF SameNode
  <2> QED
    BY <2>2, <2>3, <2>4 DEF NodeInv, LedgerInv
<1> QED
  BY <1>1, <1>2, <1>3, <1>4, <1>5, <1>6 DEF NodeInv

\* The steps of claims that change no cache: what they change of the volume, of the
\* claim or of an answer is nothing that a cache mirrors yet.
LEMMA QuietClaimStep ==
    ASSUME Faults = {}, PlacesCounted, ExtenderInv, NEW c \in Claims, NEW m \in Nodes,
           \/ OnPvcUpdate(c) \/ SchedulingPVCAgain(c) \/ CreateVolumeNamed(c)
           \/ VolumeCreated(c) \/ VolumeFailed(c) \/ BindPV(c) \/ ExpandPV(c)
           \/ DeleteClaim(c) \/ RemoveSelectedNode(c)
    PROVE  SameNode(m)
<1> USE DEF api, extender, seen
<1>0. TypeOK /\ InStage(c) /\ NodeInv(m)
  BY DEF ExtenderInv
<1>1. \A v \in VGs : nls[m].cap[v] <= nls[m].cap[v]
  BY <1>0 DEF TypeOK, Statuses
<1>2. UNCHANGED <<cache, seenNLS, used, nls, binding, pod, podNode, seenPod>>
  BY DEF OnPvcUpdate, SchedulingPVCAgain, CreateVolumeNamed, VolumeCreated, VolumeFailed,
         BindPV, ExpandPV, DeleteClaim, RemoveSelectedNode
<1>3. \A p \in Pods : cache[m].inline[p] # "none" =>
          podNode[p] = m /\ pod[p] \in {"running", "gone"} /\ p \in seenPod
  BY <1>0 DEF NodeInv, InlineInv
<1>4. \A d \in Claims :
         pv[d] # None /\ pv[d].phase = "bound" /\ pv[d].node = m /\ seenPV[d] # None
            => cache[m].known
  BY <1>0 DEF NodeInv, StatusInv
<1>5. ASSUME \A d \in Claims :
                /\ OnNode(d, m)' <=> OnNode(d, m)
                /\ OnNode(d, m) => seenPV'[d] = seenPV[d]
                /\ claim'[d] # "absent" => claim[d] # "absent"
                /\ pv'[d] # None /\ pv'[d].phase = "bound" /\ pv'[d].node = m
                   /\ seenPV'[d] # None => cache[m].known
      PROVE  SameNode(m)
  BY <1>1, <1>2, <1>3, <1>5 DEF SameNode
<1>6. CASE UNCHANGED <<pv, seenPV, claim>>
  BY <1>4, <1>5, <1>6 DEF OnNode
<1>7. CASE VolumeCreated(c)
  <2>1. /\ seenPV' = [seenPV EXCEPT ![c] = pv'[c]] /\ UNCHANGED claim
        /\ pv' = [pv EXCEPT ![c] = [phase |-> "pending", node |-> answer[c].target,
                                    where |-> answer[c].unit.where, size |-> Size[c]]]
    BY <1>7 DEF VolumeCreated
  <2>2. Waiting(c)
    BY <1>0, <1>7, StageOf DEF VolumeCreated
  <2>3. \A d \in Claims : d # c => pv'[d] = pv[d] /\ seenPV'[d] = seenPV[d]
    BY <1>0, <2>1 DEF TypeOK
  <2>4. pv'[c].phase = "pending" /\ seenPV'[c].phase = "pending" /\ seenPV[c] = None
    BY <1>0, <2>1, <2>2 DEF TypeOK, Waiting
  <2> QED
    BY <1>4, <1>5, <2>1, <2>3, <2>4 DEF OnNode
<1>8. CASE BindPV(c)
  <2>1. UNCHANGED seenPV /\ \A d \in Claims : d # c => pv'[d] = pv[d] /\ claim'[d] = claim[d]
    BY <1>0, <1>8 DEF BindPV, TypeOK
  <2>2. seenNLS[m] # None
    BY <1>8 DEF BindPV, Synced
  <2>3. cache[m].known
    BY <1>0, <2>2 DEF NodeInv, StatusInv
  <2>4. claim[c] # "absent"
    BY <1>8 DEF BindPV
  <2> QED
    BY <1>5, <2>1, <2>3, <2>4 DEF OnNode
<1>9. CASE ExpandPV(c)
  <2>1. /\ UNCHANGED <<seenPV, claim>> /\ \A d \in Claims : d # c => pv'[d] = pv[d]
        /\ pv[c] # None /\ pv[c].phase = "bound" /\ pv' = [pv EXCEPT ![c].size = @ + 1]
    BY <1>0, <1>9 DEF ExpandPV, TypeOK
  <2>2. pv'[c].node = pv[c].node
    BY <1>0, <2>1 DEF TypeOK, Volumes
  <2> QED
    BY <1>4, <1>5, <2>1, <2>2 DEF OnNode
<1>10. CASE DeleteClaim(c)
  <2>1. /\ UNCHANGED seenPV /\ \A d \in Claims : d # c => pv'[d] = pv[d] /\ claim'[d] = claim[d]
        /\ pv'[c] = None /\ claim'[c] = "absent"
    BY <1>0, <1>10 DEF DeleteClaim, TypeOK
  <2> QED
    BY <1>4, <1>5, <2>1 DEF OnNode
<1> QED
  BY <1>6, <1>7, <1>8, <1>9, <1>10
  DEF OnPvcUpdate, SchedulingPVCAgain, CreateVolumeNamed, VolumeFailed, RemoveSelectedNode

\* The steps of pods that change no cache: a pod that is created or starts to run is
\* not known to any cache yet.
LEMMA QuietPodStep ==
    ASSUME Faults = {}, ExtenderInv, NEW p \in Pods, NEW m \in Nodes,
           CreatePod(p) \/ Schedule(p) \/ RunPod(p) \/ DeletePod(p)
    PROVE  SameNode(m)
<1> USE DEF api, extender, seen
<1>0. TypeOK /\ NodeInv(m) /\ \A d \in Claims : InStage(d)
  BY DEF ExtenderInv
<1>1. \A v \in VGs : nls[m].cap[v] <= nls[m].cap[v]
  BY <1>0 DEF TypeOK, Statuses
<1>2. UNCHANGED <<cache, seenNLS, nls, binding, pv, seenPV, seenPod>> /\ used \subseteq used'
  BY DEF CreatePod, Schedule, RunPod, DeletePod
<1>3. \A q \in Pods : cache[m].inline[q] # "none" =>
          podNode[q] = m /\ pod[q] \in {"running", "gone"} /\ q \in seenPod
  BY <1>0 DEF NodeInv, InlineInv
<1>4. \A d \in Claims :
         pv[d] # None /\ pv[d].phase = "bound" /\ pv[d].node = m /\ seenPV[d] # None
            => cache[m].known
  BY <1>0 DEF NodeInv, StatusInv
<1>5. \A d \in Claims : cache[m].records[d] # None /\ claim'[d] # "absent"
                           => claim[d] # "absent"
  <2>1. CASE CreatePod(p)
    <3> SUFFICES ASSUME NEW d \in Claims, cache[m].records[d] # None, claim'[d] # "absent",
                        claim[d] = "absent"
                 PROVE  FALSE
      OBVIOUS
    <3>1. d \in Mounts(p) /\ d \notin used
      BY <2>1 DEF CreatePod
    <3> QED
      BY <1>0, <3>1 DEF NodeInv, RecordsInv
  <2>2. CASE Schedule(p) \/ RunPod(p) \/ DeletePod(p)
    BY <2>2 DEF Schedule, RunPod, DeletePod
  <2> QED
    BY <2>1, <2>2
<1>6. \A q \in Pods : cache[m].inline[q] # "none" =>
          podNode'[q] = m /\ pod'[q] \in {"running", "gone"} /\ q \in seenPod'
  <2>1. CASE CreatePod(p) \/ RunPod(p)
    <3>1. pod[p] \notin {"running", "gone"}
      BY <2>1 DEF CreatePod, RunPod
    <3>2. \A q \in Pods : q # p => pod'[q] = pod[q] /\ podNode'[q] = podNode[q]
      BY <1>0, <2>1 DEF CreatePod, RunPod, TypeOK
    <3> QED
      BY <1>2, <1>3, <3>1, <3>2
  <2>2. CASE Schedule(p)
    BY <1>2, <1>3, <2>2 DEF Schedule
  <2>3. CASE DeletePod(p)
    BY <1>0, <1>2, <1>3, <2>3 DEF DeletePod, TypeOK
  <2> QED
    BY <2>1, <2>2, <2>3
<1> QED
  BY <1>1, <1>2, <1>4, <1>5, <1>6 DEF SameNode, OnNode

\* A capacity that grows, or a disk that comes or goes, is nothing the cache mirrors.
LEMMA QuietNodeStep ==
    ASSUME ExtenderInv, NEW n \in Nodes, NEW m \in Nodes, ChangeNLS(n)
    PROVE  SameNode(m)
<1>0. TypeOK /\ NodeInv(m)
  BY DEF ExtenderInv
<1>1. UNCHANGED <<cache, seenNLS, used, binding, pv, seenPV, seenPod, claim, pod, podNode>>
  BY DEF ChangeNLS, extender, seen
<1>2. \A q \in Pods : cache[m].inline[q] # "none" =>
          podNode[q] = m /\ pod[q] \in {"running", "gone"} /\ q \in seenPod
  BY <1>0 DEF NodeInv, InlineInv
<1>3. \A d \in Claims :
         pv[d] # None /\ pv[d].phase = "bound" /\ pv[d].node = m /\ seenPV[d] # None
            => cache[m].known
  BY <1>0 DEF NodeInv, StatusInv
<1>4. \A v \in VGs : nls[m].cap[v] <= nls'[m].cap[v]
  <2>1. nls[m] \in Statuses /\ nls[n] \in Statuses /\ nls \in [Nodes -> Statuses]
    BY <1>0 DEF TypeOK
  <2>2. ASSUME NEW u \in VGs, nls' = [nls EXCEPT ![n].cap[u] = @ + 1]
        PROVE  \A v \in VGs : nls[m].cap[v] <= nls'[m].cap[v]
    BY <2>1, <2>2 DEF Statuses
  <2>3. ASSUME NEW D, nls' = [nls EXCEPT ![n].disks = D]
        PROVE  \A v \in VGs : nls[m].cap[v] <= nls'[m].cap[v]
    BY <2>1, <2>3 DEF Statuses
  <2> QED
    BY <2>2, <2>3 DEF ChangeNLS
<1> QED
  BY <1>1, <1>2, <1>3, <1>4 DEF SameNode, OnNode

\* After a restart every node cache is new and mirrors nothing.
LEMMA RestartNode ==
    ASSUME Faults = {}, TypeOK', NEW m \in Nodes, Restart
    PROVE  NodeInv(m)'
<1>1. /\ cache'[m] = NewNodeCache /\ seenNLS'[m] = None
      /\ \A c \in Claims : seenPV'[c] = None /\ binding'[c] = None
  BY DEF Restart
<1>2. \A c \in Claims : ~OnNode(c, m)'
  BY <1>1 DEF OnNode
<1>3. \A c \in Claims : \A w \in VGs \cup Disks : binding'[c] # Unit(c, m, w)
  <2> SUFFICES ASSUME NEW c \in Claims, NEW w \in VGs \cup Disks, binding'[c] = Unit(c, m, w)
               PROVE  FALSE
    OBVIOUS
  <2>1. Unit(c, m, w) \in Places
    BY DEF Unit, Places
  <2> QED
    BY <1>1, <2>1, NoneAssumption
<1>4. VolumesInv(m)' /\ RecordsInv(m)' /\ StatusInv(m)' /\ InlineInv(m)'
  BY <1>1, <1>2 DEF VolumesInv, RecordsInv, StatusInv, InlineInv, NewNodeCache
<1>5. HeldInv(m)'
  BY <1>1, <1>3 DEF HeldInv, NewNodeCache
<1>6. LedgerInv(m)'
  BY <1>1 DEF LedgerInv, NewNodeCache
<1> QED
  BY <1>4, <1>5, <1>6 DEF NodeInv

----------------------------------------------------------------------------
(* The events of volumes *)

\* If a step changes what c takes in v and nothing else, the total changes by the
\* difference.
LEMMA TakenStep ==
    ASSUME TypeOK, TypeOK', NEW n, NEW v, NEW c \in Claims,
           \A d \in Claims : d # c => Taken(n, v, d)' = Taken(n, v, d)
    PROVE  Total(TakenOn(n, v)') = Total(TakenOn(n, v)) - Taken(n, v, c) + Taken(n, v, c)'
<1> DEFINE f == TakenOn(n, v)
           g == TakenOn(n, v)'
<1>1. f \in [Claims -> 0..MaxSize]
  BY TakenTotal
<1>2. g \in [Claims -> 0..MaxSize]
  <2>1. \A d \in Claims : Taken(n, v, d)' \in 0..MaxSize
    BY SizeAssumption, MaxSizeAssumption DEF Taken, OnNode, TypeOK, Volumes, Sizes
  <2> QED
    BY <2>1 DEF TakenOn
<1>3. \A d \in Claims : d # c => g[d] = f[d]
  BY DEF TakenOn
<1>4. f[c] = Taken(n, v, c) /\ g[c] = Taken(n, v, c)'
  BY DEF TakenOn
<1> HIDE DEF f, g
<1>5. Total(g) = Total(f) - f[c] + g[c]
  BY <1>1, <1>2, <1>3, TotalUpdate, StorageAssumption
<1> QED
  BY <1>4, <1>5 DEF f, g

\* The other claims and the other nodes of an event of the volume of c.
LEMMA EventElsewhere ==
    ASSUME Faults = {}, ExtenderInv, NEW c \in Claims, NEW n, NEW vol, NEW w, NEW amount,
           NEW held, VolumeEvent(c, n, vol, w, amount, held), NEW m \in Nodes, m # n,
           ~OnNode(c, m), ~OnNode(c, m)',
           \A x \in VGs \cup Disks : binding[c] # Unit(c, m, x) /\ binding'[c] # Unit(c, m, x),
           binding'[c] = None \/ binding'[c].node # m,
           cache[m].records[c] = None \/ claim[c] = "absent" \/ UNCHANGED binding,
           pv[c] = None \/ pv[c].node # m
    PROVE  SameNode(m)
<1>0. TypeOK /\ NodeInv(m)
  BY DEF ExtenderInv
<1>1. \A v \in VGs : nls[m].cap[v] <= nls[m].cap[v]
  BY <1>0 DEF TypeOK, Statuses
<1>2. \A q \in Pods : cache[m].inline[q] # "none" =>
          podNode[q] = m /\ pod[q] \in {"running", "gone"} /\ q \in seenPod
  BY <1>0 DEF NodeInv, InlineInv
<1>3. \A d \in Claims :
         pv[d] # None /\ pv[d].phase = "bound" /\ pv[d].node = m /\ seenPV[d] # None
            => cache[m].known
  BY <1>0 DEF NodeInv, StatusInv
<1>4. /\ \A d \in Claims : d # c => seenPV'[d] = seenPV[d] /\ binding'[d] = binding[d]
      /\ cache'[m] = cache[m]
      /\ UNCHANGED <<pod, podNode, claim, pv, nls, used, seenPod, seenNLS>>
  BY DEF VolumeEvent
<1>5. \A d \in Claims : d # c => (OnNode(d, m)' <=> OnNode(d, m))
  BY <1>4 DEF OnNode
<1> QED
  BY <1>1, <1>2, <1>3, <1>4, <1>5 DEF SameNode

\* An event of the volume of c keeps the invariant of its node if the cache then has
\* the volume, the record of c is still right, and c takes the charged amount more.
LEMMA EventNode ==
    ASSUME Faults = {}, ExtenderInv, TypeOK', NEW c \in Claims, NEW n, NEW vol, NEW w,
           NEW amount \in Int, NEW held, VolumeEvent(c, n, vol, w, amount, held),
           vol = IF OnNode(c, n)' THEN seenPV'[c] ELSE None,
           cache[n].records[c] # None /\ claim[c] # "absent" => binding'[c] = cache[n].records[c],
           binding'[c] # None /\ binding'[c].node = n =>
               OnNode(c, n)' \/ cache[n].records[c] = binding'[c],
           HeldInv(n)',
           \A v \in VGs : Taken(n, v, c)'
                            = Taken(n, v, c) + (IF Kind[c] = "LVM" /\ v = w THEN amount ELSE 0)
    PROVE  NodeInv(n)'
<1> DEFINE nc == cache[n]
           x == cache'[n]
<1>0. n \in Nodes /\ TypeOK /\ NodeInv(n) /\ nc \in NodeCaches
  BY DEF ExtenderInv, VolumeEvent, TypeOK
<1>1. /\ x.known /\ seenPV'[c] = pv[c]
      /\ \A d \in Claims : d # c => seenPV'[d] = seenPV[d] /\ binding'[d] = binding[d]
      /\ UNCHANGED <<pod, podNode, claim, pv, nls, used, seenPod, seenNLS>>
  BY DEF VolumeEvent
<1>2. /\ x.vgs = nc.vgs /\ x.cap = nc.cap /\ x.records = nc.records /\ x.inline = nc.inline
      /\ x.localPVs = [nc.localPVs EXCEPT ![c] = vol]
  BY DEF VolumeEvent, VolumeChange
<1>3. \A v \in VGs : x.req[v] = IF v \in nc.vgs /\ v = w /\ Kind[c] = "LVM"
                                THEN nc.req[v] + amount ELSE nc.req[v]
  BY StorageAssumption DEF VolumeEvent, VolumeChange
<1>4. \A d \in Claims : d # c => /\ OnNode(d, n)' <=> OnNode(d, n)
                                /\ \A v \in VGs : Taken(n, v, d)' = Taken(n, v, d)
  BY <1>1 DEF OnNode, Taken
<1>5. VolumesInv(n)'
  <2>1. nc.localPVs \in [Claims -> Volumes \cup {None}]
    BY <1>0 DEF NodeCaches
  <2>2. \A d \in Claims : d # c => x.localPVs[d] = IF OnNode(d, n)' THEN seenPV'[d] ELSE None
    BY <1>0, <1>1, <1>2, <1>4, <2>1 DEF NodeInv, VolumesInv
  <2>3. x.localPVs[c] = vol
    BY <1>2, <2>1
  <2> QED
    BY <2>2, <2>3 DEF VolumesInv
<1>6. RecordsInv(n)'
  <2>1. nc.records[c] # None => c \in used /\ nc.records[c].node = n
    BY <1>0 DEF NodeInv, RecordsInv
  <2>2. ASSUME NEW d \in Claims, d # c
        PROVE  /\ nc.records[d] # None =>
                    /\ d \in used' /\ nc.records[d].node = n
                    /\ claim'[d] # "absent" => binding'[d] = nc.records[d]
               /\ binding'[d] # None /\ binding'[d].node = n =>
                    OnNode(d, n)' \/ nc.records[d] = binding'[d]
    BY <1>0, <1>1, <1>4, <2>2 DEF NodeInv, RecordsInv
  <2> QED
    BY <1>1, <1>2, <2>1, <2>2 DEF RecordsInv
<1>7. StatusInv(n)' /\ InlineInv(n)'
  BY <1>0, <1>1, <1>2 DEF NodeInv, StatusInv, InlineInv
<1>8. LedgerInv(n)'
  <2> SUFFICES ASSUME NEW v \in VGs
               PROVE  x.req[v] = IF v \in x.vgs THEN Total(TakenOn(n, v)') + Total(InlineOn(n, v)')
                                 ELSE 0
    BY DEF LedgerInv
  <2>1. Total(TakenOn(n, v)') = Total(TakenOn(n, v)) - Taken(n, v, c) + Taken(n, v, c)'
    BY <1>0, <1>4, TakenStep
  <2>2. Total(TakenOn(n, v)) \in Nat /\ Total(InlineOn(n, v)) \in Nat
    BY <1>0, TakenTotal
  <2>3. Taken(n, v, c) \in Int
    BY <1>0, TakenType, MaxSizeAssumption
  <2>4. InlineOn(n, v)' = InlineOn(n, v)
    BY <1>2 DEF InlineOn
  <2>5. nc.req[v] = IF v \in nc.vgs THEN Total(TakenOn(n, v)) + Total(InlineOn(n, v)) ELSE 0
    BY <1>0 DEF NodeInv, LedgerInv
  <2>6. Taken(n, v, c)' = Taken(n, v, c) + (IF Kind[c] = "LVM" /\ v = w THEN amount ELSE 0)
    OBVIOUS
  <2> DEFINE t == Total(TakenOn(n, v))
             i == Total(InlineOn(n, v))
             k == Taken(n, v, c)
             t2 == Total(TakenOn(n, v)')
             k2 == Taken(n, v, c)'
  <2> HIDE DEF t, i, k, t2, k2
  <2>7. t2 = t - k + k2 /\ t \in Nat /\ i \in Nat /\ k \in Int
    BY <2>1, <2>2, <2>3 DEF t, i, k, t2, k2
  <2>8. k2 = k + (IF Kind[c] = "LVM" /\ v = w THEN amount ELSE 0)
    BY <2>6 DEF k, k2
  <2>9. nc.req[v] = IF v \in nc.vgs THEN t + i ELSE 0
    BY <2>5 DEF t, i
  <2>10. x.req[v] = IF v \in x.vgs THEN t2 + i ELSE 0
    <3>1. CASE Kind[c] = "LVM" /\ v = w
      BY <1>2, <1>3, <2>7, <2>8, <2>9, <3>1
    <3>2. CASE ~(Kind[c] = "LVM" /\ v = w)
      BY <1>2, <1>3, <2>7, <2>8, <2>9, <3>2
    <3> QED
      BY <3>1, <3>2
  <2> QED
    BY <2>4, <2>10 DEF t2, i
<1> QED
  BY <1>5, <1>6, <1>7, <1>8 DEF NodeInv

\* A unit is never None.
LEMMA UnitNotNone ==
    ASSUME NEW c \in Claims, NEW n \in Nodes, NEW w \in VGs \cup Disks
    PROVE  Unit(c, n, w) # None
<1>1. Unit(c, n, w) \in Places
  BY DEF Unit, Places
<1> QED
  BY <1>1, NoneAssumption

\* What the volume of c takes on its node.
LEMMA VolumeTaken ==
    ASSUME TypeOK, NEW c \in Claims, NEW n, OnNode(c, n), seenPV[c].where \in Fitting(c),
           NEW v \in VGs
    PROVE  Taken(n, v, c) = IF Kind[c] = "LVM" /\ v = seenPV[c].where THEN seenPV[c].size ELSE 0
  BY StorageAssumption DEF Taken, Fitting

\* onPVAdd keeps the invariant of every node.
LEMMA AddNode ==
    ASSUME Faults = {}, ExtenderInv, TypeOK', NEW c \in Claims, OnPVAdd(c), NEW m \in Nodes
    PROVE  NodeInv(m)'
<1>n. PICK n : n = pv[c].node
  OBVIOUS
<1> DEFINE held == cache[n].held \cup ({pv[c].where} \cap cache[n].disks)
<1>0. TypeOK /\ InStage(c) /\ NodeInv(m)
  BY DEF ExtenderInv
<1>1. /\ Bound(c) /\ seenPV[c] = None /\ binding[c] = None
      /\ pv[c] \in Volumes /\ binding'[c] = Unit(c, n, pv[c].where)
      /\ VolumeEvent(c, n, pv[c], pv[c].where, pv[c].size, held)
  BY <1>n, AddEvent
<1>2. /\ n \in Nodes /\ seenPV'[c] = pv[c] /\ pv[c] # None /\ pv[c].phase = "bound"
      /\ pv[c].where \in Fitting(c) /\ pv[c].where \in VGs \cup Disks /\ claim[c] = "bound"
      /\ pv[c].size \in Int
  BY <1>n, <1>1, MaxSizeAssumption DEF VolumeEvent, Bound, Volumes, Sizes
<1>3. \A k \in Nodes : cache[k].records[c] = None
  BY <1>1, <1>2 DEF ExtenderInv, NodeInv, RecordsInv
<1>4. \A k \in Nodes : \A x \in VGs \cup Disks : binding[c] # Unit(c, k, x)
  BY <1>1, UnitNotNone
<1>5. OnNode(c, n)' /\ \A k : ~OnNode(c, k) /\ (k # n => ~OnNode(c, k)')
  BY <1>n, <1>1, <1>2 DEF OnNode
<1>6. CASE m # n
  <2>1. binding'[c].node = n /\ \A x : binding'[c] # Unit(c, m, x)
    BY <1>1, <1>6, UnitFields
  <2> HIDE DEF held
  <2>2. pv[c].node # m
    BY <1>n, <1>6
  <2>3. SameNode(m)
    BY <1>1, <1>3, <1>4, <1>5, <1>6, <2>1, <2>2, EventElsewhere
  <2> QED
    BY <1>0, <2>3, SameNodeStep
<1>7. CASE m = n
  <2>1. HeldInv(n)
    BY <1>2 DEF ExtenderInv, NodeInv
  <2>2. cache[n].held \subseteq Disks
    BY <1>0, <1>2 DEF TypeOK, NodeCaches
  <2>3. /\ \A d \in Claims : d # c => seenPV'[d] = seenPV[d] /\ binding'[d] = binding[d]
        /\ cache'[n].disks = cache[n].disks
        /\ cache'[n].held = IF Kind[c] = "LVM" THEN cache[n].held ELSE held
    BY <1>1 DEF VolumeEvent, VolumeChange
  <2>4. HeldInv(n)'
    <3>1. ASSUME NEW w \in cache'[n].held
          PROVE  \E d \in Claims : Kind[d] # "LVM" /\ binding'[d] = Unit(d, n, w)
      <4>1. CASE w \in cache[n].held
        <5>1. PICK d \in Claims : Kind[d] # "LVM" /\ binding[d] = Unit(d, n, w)
          BY <2>1, <4>1 DEF HeldInv
        <5>2. d # c
          BY <1>2, <1>4, <2>2, <4>1, <5>1
        <5> QED
          BY <2>3, <5>1, <5>2
      <4>2. CASE w \notin cache[n].held
        BY <1>1, <2>3, <3>1, <4>2
      <4> QED
        BY <4>1, <4>2
    <3>2. ASSUME NEW d \in Claims, NEW w \in Disks, Kind[d] # "LVM", binding'[d] = Unit(d, n, w)
          PROVE  /\ w \in cache'[n].disks => w \in cache'[n].held
                 /\ OnNode(d, n)' \/ w \in cache'[n].held
      <4>1. CASE d = c
        <5>1. w = pv[c].where
          BY <1>1, <3>2, <4>1, UnitFields
        <5> QED
          BY <1>5, <2>3, <3>2, <4>1, <5>1
      <4>2. CASE d # c
        <5>1. OnNode(d, n)' <=> OnNode(d, n)
          BY <2>3, <4>2 DEF OnNode
        <5> QED
          BY <2>1, <2>3, <3>2, <4>2, <5>1 DEF HeldInv
      <4> QED
        BY <4>1, <4>2
    <3> QED
      BY <3>1, <3>2 DEF HeldInv
  <2>5. \A v \in VGs : Taken(n, v, c)' = Taken(n, v, c) +
                         (IF Kind[c] = "LVM" /\ v = pv[c].where THEN pv[c].size ELSE 0)
    <3>1. \A v \in VGs : Taken(n, v, c) = 0
      BY <1>2, <1>4, <1>5 DEF Taken
    <3>2. \A v \in VGs : Taken(n, v, c)'
                           = IF Kind[c] = "LVM" /\ v = pv[c].where THEN pv[c].size ELSE 0
      BY <1>2, <1>5, StorageAssumption DEF Taken, Fitting
    <3> QED
      BY <1>2, <3>1, <3>2
  <2>6. pv[c] = IF OnNode(c, n)' THEN seenPV'[c] ELSE None
    BY <1>2, <1>5
  <2> HIDE DEF held
  <2>7. NodeInv(n)'
    BY <1>1, <1>2, <1>3, <1>5, <2>4, <2>5, <2>6, EventNode
  <2> QED
    BY <1>7, <2>7
<1> QED
  BY <1>6, <1>7

\* onPVUpdate keeps the invariant of every node: a volume that was charged when it was
\* answered, or seen before, adds the difference of the sizes.
LEMMA UpdateNode ==
    ASSUME Faults = {}, ExtenderInv, TypeOK', NEW c \in Claims, OnPVUpdate(c), NEW m \in Nodes
    PROVE  NodeInv(m)'
<1>n. PICK n : n = pv[c].node
  OBVIOUS
<1> DEFINE held == cache[n].held \cup ({pv[c].where} \cap cache[n].disks)
           amount == IF IsPVAllocated(cache[n], c) THEN pv[c].size - seenPV[c].size
                     ELSE pv[c].size
<1>0. TypeOK /\ InStage(c) /\ NodeInv(m)
  BY DEF ExtenderInv
<1>1. /\ Bound(c) /\ seenPV[c] # None /\ UNCHANGED binding
      /\ pv[c] \in Volumes /\ seenPV[c] \in Volumes
      /\ VolumeEvent(c, n, pv[c], pv[c].where, amount, held)
  BY <1>n, UpdateEvent
<1>2. /\ n \in Nodes /\ seenPV'[c] = pv[c] /\ pv[c] # None /\ pv[c].phase = "bound"
      /\ pv[c].where \in Fitting(c) /\ pv[c].where \in VGs \cup Disks /\ claim[c] = "bound"
      /\ pv[c].size \in Int /\ seenPV[c].size \in Int /\ amount \in Int
  BY <1>n, <1>1, MaxSizeAssumption DEF VolumeEvent, Bound, Volumes, Sizes
<1>3. /\ seenPV[c].node = n /\ seenPV[c].where = pv[c].where
      /\ seenPV[c].phase = "pending" => seenPV[c].size = Size[c] /\ pv[c].size = Size[c]
      /\ Backed(c, n, pv[c].where)
  BY <1>n, <1>1 DEF Bound
<1>4. NodeInv(n)
  BY <1>2 DEF ExtenderInv
<1>5. OnNode(c, n)' /\ \A k : k # n => ~OnNode(c, k) /\ ~OnNode(c, k)'
  BY <1>n, <1>1, <1>2, <1>3 DEF OnNode
<1>6. CASE m # n
  <2>1. \A x \in VGs \cup Disks : binding[c] # Unit(c, m, x)
    BY <1>3, <1>6, UnitFields, UnitNotNone DEF Backed
  <2>2. binding[c] = None \/ binding[c].node # m
    BY <1>3, <1>6, UnitFields DEF Backed
  <2> HIDE DEF held, amount
  <2>3. pv[c].node # m /\ UNCHANGED binding
    BY <1>n, <1>1, <1>6
  <2>4. SameNode(m)
    BY <1>1, <1>5, <1>6, <2>1, <2>2, <2>3, EventElsewhere
  <2> QED
    BY <1>0, <2>4, SameNodeStep
<1>7. CASE m = n
  <2>1. HeldInv(n) /\ RecordsInv(n) /\ VolumesInv(n)
    BY <1>4 DEF NodeInv
  <2>2. /\ \A d \in Claims : d # c => seenPV'[d] = seenPV[d]
        /\ cache'[n].disks = cache[n].disks
        /\ cache'[n].held = IF Kind[c] = "LVM" THEN cache[n].held ELSE held
    BY <1>1 DEF VolumeEvent, VolumeChange
  <2>3. \A d \in Claims : OnNode(d, n) => OnNode(d, n)'
    BY <1>5, <2>2 DEF OnNode
  <2>4. HeldInv(n)'
    <3>1. ASSUME NEW w \in cache'[n].held
          PROVE  \E d \in Claims : Kind[d] # "LVM" /\ binding'[d] = Unit(d, n, w)
      <4>1. CASE w \in cache[n].held
        BY <1>1, <2>1, <4>1 DEF HeldInv
      <4>2. CASE w \notin cache[n].held
        <5>1. Kind[c] # "LVM" /\ w = pv[c].where /\ Asks(c)
          BY <2>2, <3>1, <4>2 DEF Asks
        <5> QED
          BY <1>1, <1>3, <5>1 DEF Backed
      <4> QED
        BY <4>1, <4>2
    <3>2. ASSUME NEW d \in Claims, NEW w \in Disks, Kind[d] # "LVM", binding'[d] = Unit(d, n, w)
          PROVE  /\ w \in cache'[n].disks => w \in cache'[n].held
                 /\ OnNode(d, n)' \/ w \in cache'[n].held
      BY <1>1, <2>1, <2>2, <2>3, <3>2 DEF HeldInv
    <3> QED
      BY <3>1, <3>2 DEF HeldInv
  <2>5. cache[n].records[c] # None => binding[c] = cache[n].records[c]
    BY <1>2, <2>1 DEF RecordsInv
  <2>6. \A v \in VGs : Taken(n, v, c)' = Taken(n, v, c) +
                         (IF Kind[c] = "LVM" /\ v = pv[c].where THEN amount ELSE 0)
    <3> SUFFICES ASSUME NEW v \in VGs
                 PROVE  Taken(n, v, c)' = Taken(n, v, c) +
                          (IF Kind[c] = "LVM" /\ v = pv[c].where THEN amount ELSE 0)
      OBVIOUS
    <3>1. Taken(n, v, c)' = IF Kind[c] = "LVM" /\ v = pv[c].where THEN pv[c].size ELSE 0
      BY <1>2, <1>5, StorageAssumption DEF Taken, Fitting
    <3>2. CASE OnNode(c, n)
      <4>1. Taken(n, v, c) = IF Kind[c] = "LVM" /\ v = pv[c].where THEN seenPV[c].size ELSE 0
        BY <1>2, <1>3, <3>2, StorageAssumption DEF Taken, Fitting
      <4>2. cache[n].localPVs[c] # None
        BY <1>1, <2>1, <3>2 DEF VolumesInv
      <4>3. amount = pv[c].size - seenPV[c].size
        BY <4>2 DEF IsPVAllocated
      <4> QED
        BY <1>2, <3>1, <4>1, <4>3
    <3>3. CASE ~OnNode(c, n) /\ binding[c] # None
      <4>1. binding[c] = Unit(c, n, pv[c].where)
        BY <1>3, <3>3 DEF Backed
      <4>2. Taken(n, v, c) = IF Kind[c] = "LVM" /\ v = pv[c].where THEN Size[c] ELSE 0
        BY <1>2, <3>3, <4>1, UnitFields, StorageAssumption DEF Taken, Fitting
      <4>3. cache[n].records[c] # None
        BY <2>1, <3>3, <4>1, UnitFields DEF RecordsInv
      <4>4. amount = pv[c].size - seenPV[c].size
        BY <4>3 DEF IsPVAllocated
      <4>5. seenPV[c].phase = "pending"
        BY <1>1, <1>3, <3>3 DEF OnNode, Volumes
      <4> QED
        BY <1>2, <1>3, <3>1, <4>2, <4>4, <4>5
    <3>4. CASE ~OnNode(c, n) /\ binding[c] = None
      <4>1. Taken(n, v, c) = 0
        BY <1>2, <3>4, UnitNotNone DEF Taken
      <4>2. amount = pv[c].size
        BY <2>1, <2>5, <3>4 DEF IsPVAllocated, VolumesInv
      <4> QED
        BY <1>2, <3>1, <4>1, <4>2
    <3> QED
      BY <3>2, <3>3, <3>4
  <2>7. pv[c] = IF OnNode(c, n)' THEN seenPV'[c] ELSE None
    BY <1>2, <1>5
  <2> HIDE DEF held, amount
  <2>8. NodeInv(n)'
    BY <1>1, <1>2, <1>5, <2>4, <2>5, <2>6, <2>7, EventNode
  <2> QED
    BY <1>7, <2>8
<1> QED
  BY <1>6, <1>7

\* onPVDelete keeps the invariant of every node: the disk that becomes free was owned
\* by no other claim.
LEMMA DeleteNode ==
    ASSUME Faults = {}, ExtenderInv, TypeOK', NEW c \in Claims, OnPVDelete(c), NEW m \in Nodes
    PROVE  NodeInv(m)'
<1>n. PICK n, z, size : n = seenPV[c].node /\ z = seenPV[c].where /\ size = seenPV[c].size
  OBVIOUS
<1> DEFINE held == cache[n].held \ {z}
           amount == 0 - size
<1>0. TypeOK /\ InStage(c) /\ NodeInv(m)
  BY DEF ExtenderInv
<1>1. /\ Deleted(c) /\ seenPV[c] \in Volumes /\ binding'[c] = None
      /\ VolumeEvent(c, n, None, z, amount, held)
  BY <1>n, DeleteEvent
<1>2. /\ n \in Nodes /\ seenPV'[c] = None /\ pv[c] = None /\ seenPV[c].phase = "bound"
      /\ z \in Fitting(c) /\ z \in VGs \cup Disks /\ claim[c] = "absent" /\ seenPV[c] # None
      /\ size \in Int /\ amount \in Int /\ Backed(c, n, z)
  BY <1>n, <1>1, MaxSizeAssumption DEF VolumeEvent, Deleted, Volumes, Sizes
<1>4. NodeInv(n)
  BY <1>2 DEF ExtenderInv
<1>5. OnNode(c, n) /\ \A k : ~OnNode(c, k)' /\ (k # n => ~OnNode(c, k))
  BY <1>n, <1>1, <1>2 DEF OnNode
<1>6. CASE m # n
  <2>1. \A x \in VGs \cup Disks : binding[c] # Unit(c, m, x) /\ binding'[c] # Unit(c, m, x)
    BY <1>1, <1>2, <1>6, UnitFields, UnitNotNone DEF Backed
  <2> HIDE DEF held, amount
  <2>2. SameNode(m)
    BY <1>1, <1>2, <1>5, <1>6, <2>1, EventElsewhere
  <2> QED
    BY <1>0, <2>2, SameNodeStep
<1>7. CASE m = n
  <2>1. HeldInv(n) /\ RecordsInv(n) /\ VolumesInv(n) /\ cache[n].held \subseteq Disks
    BY <1>0, <1>2, <1>4 DEF NodeInv, TypeOK, NodeCaches
  <2>2. /\ \A d \in Claims : d # c => seenPV'[d] = seenPV[d] /\ binding'[d] = binding[d]
        /\ cache'[n].disks = cache[n].disks
        /\ cache'[n].held = IF Kind[c] = "LVM" THEN cache[n].held ELSE held
    BY <1>1 DEF VolumeEvent, VolumeChange
  <2>3. HeldInv(n)'
    <3>1. ASSUME NEW w \in cache'[n].held
          PROVE  \E d \in Claims : Kind[d] # "LVM" /\ binding'[d] = Unit(d, n, w)
      <4>1. w \in cache[n].held /\ w \in Disks /\ (Kind[c] # "LVM" => w # z)
        BY <2>1, <2>2, <3>1
      <4>2. PICK d \in Claims : Kind[d] # "LVM" /\ binding[d] = Unit(d, n, w)
        BY <2>1, <4>1 DEF HeldInv
      <4>3. d # c
        <5> SUFFICES ASSUME d = c PROVE FALSE
          OBVIOUS
        <5>1. binding[c] # None
          BY <1>2, <4>1, <4>2, UnitNotNone
        <5>2. Unit(c, n, w) = Unit(c, n, z)
          BY <1>2, <4>2, <5>1 DEF Backed
        <5> QED
          BY <4>1, <4>2, <5>2, UnitFields
      <4> QED
        BY <2>2, <4>2, <4>3
    <3>2. ASSUME NEW d \in Claims, NEW w \in Disks, Kind[d] # "LVM", binding'[d] = Unit(d, n, w)
          PROVE  /\ w \in cache'[n].disks => w \in cache'[n].held
                 /\ OnNode(d, n)' \/ w \in cache'[n].held
      <4>1. binding'[d] # None
        BY <1>2, <3>2, UnitNotNone
      <4>2. d # c /\ binding[d] = Unit(d, n, w) /\ (OnNode(d, n)' <=> OnNode(d, n))
        BY <1>1, <2>2, <3>2, <4>1 DEF OnNode
      <4>3. Kind[c] # "LVM" => w # z
        <5> SUFFICES ASSUME Kind[c] # "LVM", w = z PROVE FALSE
          OBVIOUS
        <5>1. Asks(c) /\ binding[c] = Unit(c, n, w)
          BY <1>2 DEF Asks, Backed
        <5>2. binding[c] # None /\ binding[d] # None
          BY <1>2, <4>2, <5>1, UnitNotNone
        <5>3. Owns(c, n, w) /\ Owns(d, n, w)
          BY <1>0, <4>2, <5>1, <5>2, PlaceOf DEF ExtenderInv
        <5> QED
          BY <3>2, <4>2, <5>3 DEF ExtenderInv, OwnInv
      <4> QED
        BY <2>1, <2>2, <3>2, <4>2, <4>3 DEF HeldInv
    <3> QED
      BY <3>1, <3>2 DEF HeldInv
  <2>4. \A v \in VGs : Taken(n, v, c)' = Taken(n, v, c) +
                         (IF Kind[c] = "LVM" /\ v = z THEN amount ELSE 0)
    <3>1. \A v \in VGs : Taken(n, v, c) = IF Kind[c] = "LVM" /\ v = z THEN size ELSE 0
      BY <1>n, <1>2, <1>5, StorageAssumption DEF Taken, Fitting
    <3>2. \A v \in VGs : Taken(n, v, c)' = 0
      BY <1>1, <1>2, <1>5, UnitNotNone DEF Taken
    <3> QED
      BY <1>2, <3>1, <3>2
  <2>5. None = IF OnNode(c, n)' THEN seenPV'[c] ELSE None
    BY <1>5
  <2> HIDE DEF held, amount
  <2>6. NodeInv(n)'
    BY <1>1, <1>2, <2>3, <2>4, <2>5, EventNode
  <2> QED
    BY <1>7, <2>6
<1> QED
  BY <1>6, <1>7

----------------------------------------------------------------------------
(* The request *)

\* SchedulingPVC keeps the invariant of every node: it records and charges each of
\* the claims it answers on the node of the claim.
LEMMA RequestNode ==
    ASSUME Faults = {}, PlacesCounted, ExtenderInv, TypeOK', NEW c \in Claims, SchedulingPVC(c),
           NEW m \in Nodes
    PROVE  NodeInv(m)'
<1>n. PICK n, S : n = selected[c] /\ S = Unbound(pvcPod[c])
  OBVIOUS
<1>1. PICK a : Request(c, n, S, a)
  BY <1>n, RequestEffect
<1>0. TypeOK /\ NodeInv(m) /\ \A d \in Claims : InStage(d)
  BY DEF ExtenderInv
<1>2. /\ UNCHANGED <<pod, podNode, claim, pv, nls, used, seenPod, seenPV, seenNLS>>
      /\ \A k \in Nodes : seenNLS[k] # None
  BY DEF SchedulingPVC, Synced, seen
<1>3. /\ n \in Nodes /\ S \subseteq Claims
      /\ \A d \in S : /\ claim[d] = "pending" /\ binding[d] = None
                      /\ a[d] \in Fitting(d) /\ a[d] \in VGs \cup Disks
                      /\ binding'[d] = Unit(d, n, a[d])
      /\ \A d \in Claims : d \notin S => binding'[d] = binding[d]
  BY <1>1 DEF Request, Fitting
<1>4. \A d \in S : \A k \in Nodes : \A w \in VGs \cup Disks : binding[d] # Unit(d, k, w)
  BY <1>3, UnitNotNone
<1>5. \A d \in S : /\ d \in used /\ \A k : ~OnNode(d, k)
                   /\ \A k \in Nodes : cache[k].records[d] = None
  <2> SUFFICES ASSUME NEW d \in S
               PROVE  /\ d \in used /\ \A k : ~OnNode(d, k)
                      /\ \A k \in Nodes : cache[k].records[d] = None
    OBVIOUS
  <2>1. d \in Claims /\ (Waiting(d) \/ Made(d)) /\ d \in used
    BY <1>0, <1>3, StageOf DEF Absent
  <2>2. \A k : ~OnNode(d, k)
    BY <2>1 DEF OnNode, Waiting, Made
  <2>3. \A k \in Nodes : cache[k].records[d] = None
    BY <1>3, <2>1 DEF ExtenderInv, NodeInv, RecordsInv
  <2> QED
    BY <2>1, <2>2, <2>3
<1>6. \A d, k : OnNode(d, k)' <=> OnNode(d, k)
  BY <1>2 DEF OnNode
<1>7. CASE m # n
  <2>1. cache'[m] = cache[m]
    BY <1>0, <1>1, <1>7 DEF Request, TypeOK
  <2>2. \A v \in VGs : nls[m].cap[v] <= nls[m].cap[v]
    BY <1>0 DEF TypeOK, Statuses
  <2>3. \A p \in Pods : cache[m].inline[p] # "none" =>
            podNode[p] = m /\ pod[p] \in {"running", "gone"} /\ p \in seenPod
    BY <1>0 DEF NodeInv, InlineInv
  <2>4. \A d \in Claims :
           pv[d] # None /\ pv[d].phase = "bound" /\ pv[d].node = m /\ seenPV[d] # None
              => cache[m].known
    BY <1>0 DEF NodeInv, StatusInv
  <2>5. \A d \in S : binding'[d].node = n /\ \A w : binding'[d] # Unit(d, m, w)
    BY <1>3, <1>7, UnitFields
  <2>6. SameNode(m)
    BY <1>2, <1>3, <1>4, <1>5, <1>6, <1>7, <2>1, <2>2, <2>3, <2>4, <2>5 DEF SameNode
  <2> QED
    BY <1>0, <2>6, SameNodeStep
<1>8. ASSUME m = n PROVE NodeInv(n)'
  <2> DEFINE nc == cache[n]
             x == cache'[n]
             T == DisksTaken(a, S)
  <2>0. NodeInv(n) /\ nc \in NodeCaches
    BY <1>0, <1>3 DEF ExtenderInv, TypeOK
  <2>1. x = After(nc, n, a, S)
    BY <1>0, <1>1 DEF Request, TypeOK
  <2>2. /\ x.known = nc.known /\ x.vgs = nc.vgs /\ x.cap = nc.cap
        /\ x.req = [v \in VGs |-> nc.req[v] + Charged(nc, a, S, v)]
        /\ x.disks = nc.disks \cup T /\ x.held = nc.held \cup T
        /\ x.localPVs = nc.localPVs /\ x.inline = nc.inline
        /\ x.records = [d \in Claims |->
                          IF d \in S /\ (Kind[d] # "LVM" \/ nc.records[d] = None)
                          THEN Unit(d, n, a[d]) ELSE nc.records[d]]
    BY <2>1 DEF After
  <2>3. T \subseteq nc.disks /\ \A w : w \in T <=> \E d \in S : Kind[d] # "LVM" /\ w = a[d]
    BY <1>1 DEF DisksTaken, Request
  <2> HIDE DEF x, nc, T
  <2>4. VolumesInv(n)'
    BY <1>2, <1>6, <2>0, <2>2 DEF NodeInv, VolumesInv, x, nc
  <2>5. RecordsInv(n)'
    <3>1. \A d \in S : x.records[d] = Unit(d, n, a[d])
      BY <1>3, <1>5, <2>2 DEF nc
    <3>2. \A d \in Claims : d \notin S => x.records[d] = nc.records[d]
      BY <2>2
    <3>3. ASSUME NEW d \in S
          PROVE  /\ d \in used' /\ x.records[d].node = n
                 /\ binding'[d] = x.records[d]
      BY <1>2, <1>3, <1>5, <3>1, UnitFields
    <3>4. ASSUME NEW d \in Claims, d \notin S
          PROVE  /\ x.records[d] # None =>
                      /\ d \in used' /\ x.records[d].node = n
                      /\ claim'[d] # "absent" => binding'[d] = x.records[d]
                 /\ binding'[d] # None /\ binding'[d].node = n =>
                      OnNode(d, n)' \/ x.records[d] = binding'[d]
      BY <1>2, <1>3, <1>6, <2>0, <3>2, <3>4 DEF NodeInv, RecordsInv, nc
    <3> QED
      BY <3>3, <3>4 DEF RecordsInv, x
  <2>6. StatusInv(n)'
    <3>1. nc.known /\ nc.vgs = VGs /\ \A v \in VGs : nc.cap[v] <= nls[n].cap[v]
      BY <1>2, <1>3, <2>0 DEF NodeInv, StatusInv, nc
    <3> QED
      BY <1>2, <1>3, <2>2, <3>1 DEF StatusInv, x
  <2>7. InlineInv(n)'
    BY <1>2, <2>0, <2>2 DEF NodeInv, InlineInv, x, nc
  <2>8. HeldInv(n)'
    <3>0. HeldInv(n) /\ nc.held \subseteq Disks
      BY <2>0 DEF NodeInv, NodeCaches
    <3>1. ASSUME NEW w \in x.held
          PROVE  \E d \in Claims : Kind[d] # "LVM" /\ binding'[d] = Unit(d, n, w)
      <4>1. CASE w \in nc.held
        <5>1. PICK d \in Claims : Kind[d] # "LVM" /\ binding[d] = Unit(d, n, w)
          BY <3>0, <4>1 DEF HeldInv, nc
        <5>2. d \notin S
          BY <1>3, <1>4, <3>0, <4>1, <5>1
        <5> QED
          BY <1>3, <5>1, <5>2
      <4>2. CASE w \in T
        BY <1>3, <2>3, <4>2
      <4> QED
        BY <2>2, <3>1, <4>1, <4>2
    <3>2. ASSUME NEW d \in Claims, NEW w \in Disks, Kind[d] # "LVM", binding'[d] = Unit(d, n, w)
          PROVE  /\ w \in x.disks => w \in x.held
                 /\ OnNode(d, n)' \/ w \in x.held
      <4>1. CASE d \in S
        <5>1. w = a[d]
          BY <1>3, <3>2, <4>1, UnitFields
        <5> QED
          BY <2>2, <2>3, <3>2, <4>1, <5>1
      <4>2. CASE d \notin S
        BY <1>3, <1>6, <2>2, <2>3, <3>0, <3>2, <4>2 DEF HeldInv, nc
      <4> QED
        BY <4>1, <4>2
    <3> QED
      BY <3>1, <3>2 DEF HeldInv, x
  <2>9. LedgerInv(n)'
    <3> SUFFICES ASSUME NEW v \in VGs
                 PROVE  x.req[v] = IF v \in x.vgs
                                   THEN Total(TakenOn(n, v)') + Total(InlineOn(n, v)') ELSE 0
      BY DEF LedgerInv, x
    <3>1. v \in nc.vgs /\ x.req[v] = nc.req[v] + Charged(nc, a, S, v)
      BY <1>2, <1>3, <2>0, <2>2 DEF NodeInv, StatusInv, nc
    <3>2. nc.req[v] = Total(TakenOn(n, v)) + Total(InlineOn(n, v))
      BY <2>0, <3>1 DEF NodeInv, LedgerInv, nc
    <3>3. InlineOn(n, v)' = InlineOn(n, v)
      BY <2>2 DEF InlineOn, x, nc
    <3> DEFINE f == TakenOn(n, v)'
               g == TakenOn(n, v)
               h == [d \in Claims |-> IF /\ d \in S /\ Kind[d] = "LVM" /\ nc.records[d] = None
                                         /\ a[d] = v
                                      THEN Size[d] ELSE 0]
    <3>4. Total(h) = Charged(nc, a, S, v)
      BY DEF Charged
    <3>5. f \in [Claims -> 0..MaxSize] /\ g \in [Claims -> 0..MaxSize]
      <4>1. \A d \in Claims : Taken(n, v, d)' \in 0..MaxSize
        BY SizeAssumption, MaxSizeAssumption DEF Taken, OnNode, TypeOK, Volumes, Sizes
      <4> QED
        BY <1>0, <4>1, TakenTotal DEF TakenOn
    <3>6. h \in [Claims -> 0..MaxSize]
      BY SizeAssumption, MaxSizeAssumption DEF Sizes
    <3>7. \A d \in Claims : \/ g[d] = f[d] /\ h[d] = 0
                            \/ g[d] = 0 /\ h[d] = f[d]
      <4>1. ASSUME NEW d \in Claims, d \notin S
            PROVE  g[d] = f[d] /\ h[d] = 0
        BY <1>2, <1>3, <1>6, <4>1 DEF TakenOn, Taken
      <4>2. ASSUME NEW d \in S
            PROVE  g[d] = 0 /\ h[d] = f[d]
        <5>1. Taken(n, v, d) = 0
          BY <1>3, <1>4, <1>5 DEF Taken
        <5>2. Taken(n, v, d)' = IF a[d] = v THEN Size[d] ELSE 0
          BY <1>3, <1>5, <1>6, UnitFields DEF Taken
        <5>3. a[d] = v => Kind[d] = "LVM"
          BY <1>3, StorageAssumption DEF Fitting
        <5>4. nc.records[d] = None
          BY <1>3, <1>5 DEF nc
        <5> QED
          BY <1>3, <5>1, <5>2, <5>3, <5>4 DEF TakenOn
      <4> QED
        BY <4>1, <4>2
    <3> HIDE DEF f, g, h
    <3>8. Total(f) = Total(g) + Total(h)
      BY <3>5, <3>6, <3>7, TotalSplit, StorageAssumption
    <3>9. Total(g) \in Nat /\ Total(h) \in Nat
      BY <3>5, <3>6, TotalType, StorageAssumption
    <3>10. Total(InlineOn(n, v)) \in Nat
      BY <1>0, TakenTotal
    <3> DEFINE i == Total(InlineOn(n, v))
    <3>11. nc.req[v] = Total(g) + i
      BY <3>2 DEF g
    <3> HIDE DEF i
    <3>12. x.req[v] = Total(f) + i
      BY <3>1, <3>4, <3>8, <3>9, <3>10, <3>11 DEF i
    <3> QED
      BY <2>2, <3>1, <3>3, <3>12 DEF i, f
  <2> QED
    BY <2>4, <2>5, <2>6, <2>7, <2>8, <2>9 DEF NodeInv
<1> QED
  BY <1>7, <1>8

----------------------------------------------------------------------------
(* The events of pods *)

\* x is the node cache nc after the inline volume of p went to the given state and the
\* amount was charged to its volume group.
InlineChange(x, nc, p, state, amount) ==
    /\ x.known /\ x.vgs = nc.vgs /\ x.cap = nc.cap /\ x.disks = nc.disks /\ x.held = nc.held
    /\ x.records = nc.records /\ x.localPVs = nc.localPVs
    /\ x.inline = [nc.inline EXCEPT ![p] = state]
    /\ \A v \in VGs : x.req[v] = IF v \in nc.vgs /\ v = InlineVG[p] THEN nc.req[v] + amount
                                 ELSE nc.req[v]

\* What the inline volume of p takes in this state.
InlineTaken(state, p) == IF state # "none" THEN InlineSize[p] ELSE 0

\* A charge followed by a change of the inline entry of p.
LEMMA InlineFields ==
    ASSUME cache \in [Nodes -> NodeCaches], NEW n \in Nodes, NEW p \in Pods, NEW x, NEW state,
           NEW amount \in Int,
           x = [Charge(Got(n), InlineVG[p], amount) EXCEPT !.inline[p] = state]
    PROVE  InlineChange(x, cache[n], p, state, amount)
<1> DEFINE nc == Got(n)
           vg == InlineVG[p]
           y == Charge(nc, vg, amount)
<1>1. /\ nc.known /\ nc.vgs = cache[n].vgs /\ nc.cap = cache[n].cap /\ nc.disks = cache[n].disks
      /\ nc.held = cache[n].held /\ nc.records = cache[n].records
      /\ nc.inline = cache[n].inline /\ nc.localPVs = cache[n].localPVs
      /\ nc.req = cache[n].req /\ nc \in NodeCaches
  BY GotFields
<1> HIDE DEF nc, vg
<1>2. /\ y.known = nc.known /\ y.vgs = nc.vgs /\ y.cap = nc.cap /\ y.disks = nc.disks
      /\ y.held = nc.held /\ y.records = nc.records /\ y.inline = nc.inline
      /\ y.localPVs = nc.localPVs /\ y \in NodeCaches
      /\ \A v \in VGs : y.req[v] = IF v \in nc.vgs /\ v = vg THEN nc.req[v] + amount
                                   ELSE nc.req[v]
  <2>1. nc \in NodeCaches
    BY <1>1
  <2> QED
    BY <2>1, ChargeFields
<1>3. x = [y EXCEPT !.inline = [y.inline EXCEPT ![p] = state]]
  BY DEF nc, vg
<1> HIDE DEF y
<1>4. /\ x.known = y.known /\ x.vgs = y.vgs /\ x.cap = y.cap /\ x.disks = y.disks
      /\ x.held = y.held /\ x.records = y.records /\ x.localPVs = y.localPVs /\ x.req = y.req
      /\ x.inline = [y.inline EXCEPT ![p] = state]
  BY <1>2, <1>3 DEF NodeCaches
<1>5. \A v \in VGs : x.req[v] = IF v \in cache[n].vgs /\ v = vg THEN cache[n].req[v] + amount
                                ELSE cache[n].req[v]
  BY <1>1, <1>2, <1>4
<1>6. /\ x.known /\ x.vgs = cache[n].vgs /\ x.cap = cache[n].cap /\ x.disks = cache[n].disks
      /\ x.held = cache[n].held /\ x.records = cache[n].records
      /\ x.localPVs = cache[n].localPVs /\ x.inline = [cache[n].inline EXCEPT ![p] = state]
  BY <1>1, <1>2, <1>4
<1> HIDE DEF vg
<1> QED
  BY <1>5, <1>6, Zenon DEF InlineChange, vg

\* The node cache of a pod is created when missing, and otherwise as it was.
LEMMA GotChange ==
    ASSUME cache \in [Nodes -> NodeCaches], NEW n \in Nodes, NEW p \in Pods
    PROVE  InlineChange(Got(n), cache[n], p, cache[n].inline[p], 0)
<1> DEFINE x == Got(n)
<1>1. /\ x.known /\ x.vgs = cache[n].vgs /\ x.cap = cache[n].cap /\ x.disks = cache[n].disks
      /\ x.held = cache[n].held /\ x.records = cache[n].records
      /\ x.inline = cache[n].inline /\ x.localPVs = cache[n].localPVs
      /\ x.req = cache[n].req
  BY GotFields
<1>2. cache[n].inline = [cache[n].inline EXCEPT ![p] = cache[n].inline[p]]
  BY DEF NodeCaches
<1>3. \A v \in VGs : cache[n].req[v] + 0 = cache[n].req[v]
  BY DEF NodeCaches
<1> HIDE DEF x
<1>4. InlineChange(x, cache[n], p, cache[n].inline[p], 0)
  BY <1>1, <1>2, <1>3 DEF InlineChange
<1> QED
  BY <1>4 DEF x

\* A change of the inline volume of p keeps the invariant of its node if what is
\* charged is the difference.
LEMMA InlineNode ==
    ASSUME ExtenderInv, TypeOK', NEW n \in Nodes, NEW p \in Pods, NEW state, NEW amount \in Int,
           InlineChange(cache'[n], cache[n], p, state, amount),
           UNCHANGED <<claim, pv, nls, used, binding, seenPV, seenNLS>>,
           amount = InlineTaken(state, p) - InlineTaken(cache[n].inline[p], p),
           seenNLS[n] = None => state = "none",
           InlineInv(n)'
    PROVE  NodeInv(n)'
<1> DEFINE nc == cache[n]
           x == cache'[n]
<1>0. TypeOK /\ NodeInv(n) /\ nc \in NodeCaches
  BY DEF ExtenderInv, TypeOK
<1>1. /\ x.known /\ x.vgs = nc.vgs /\ x.cap = nc.cap /\ x.disks = nc.disks /\ x.held = nc.held
      /\ x.records = nc.records /\ x.localPVs = nc.localPVs
      /\ x.inline = [nc.inline EXCEPT ![p] = state]
  BY DEF InlineChange
<1>2. \A v \in VGs : x.req[v] = IF v \in nc.vgs /\ v = InlineVG[p] THEN nc.req[v] + amount
                                ELSE nc.req[v]
  BY DEF InlineChange
<1>3. \A d \in Claims : OnNode(d, n)' <=> OnNode(d, n)
  BY DEF OnNode
<1>4. VolumesInv(n)' /\ RecordsInv(n)' /\ HeldInv(n)'
  BY <1>0, <1>1, <1>3 DEF NodeInv, VolumesInv, RecordsInv, HeldInv
<1>5. /\ x.inline[p] = state /\ \A q \in Pods : q # p => x.inline[q] = nc.inline[q]
  BY <1>0, <1>1 DEF NodeCaches
<1>6. StatusInv(n)'
  BY <1>0, <1>1, <1>3, <1>5 DEF NodeInv, StatusInv
<1>7. LedgerInv(n)'
  <2> SUFFICES ASSUME NEW v \in VGs
               PROVE  x.req[v] = IF v \in x.vgs THEN Total(TakenOn(n, v)') + Total(InlineOn(n, v)')
                                 ELSE 0
    BY DEF LedgerInv
  <2>1. TakenOn(n, v)' = TakenOn(n, v)
    BY DEF TakenOn, Taken, OnNode
  <2> DEFINE f == InlineOn(n, v)
             g == InlineOn(n, v)'
             k == IF InlineVG[p] = v THEN amount ELSE 0
  <2>2. f \in [Pods -> 0..MaxSize] /\ Total(f) \in Nat /\ Total(TakenOn(n, v)) \in Nat
    BY <1>0, TakenTotal
  <2>3. g \in [Pods -> 0..MaxSize]
    BY PodAssumption, MaxSizeAssumption DEF InlineOn, Sizes
  <2>4. \A q \in Pods : q # p => g[q] = f[q]
    BY <1>5 DEF InlineOn
  <2>5. /\ f[p] = IF InlineVG[p] = v THEN InlineTaken(nc.inline[p], p) ELSE 0
        /\ g[p] = IF InlineVG[p] = v THEN InlineTaken(state, p) ELSE 0
    BY <1>5 DEF InlineOn, InlineTaken
  <2>6. f[p] \in Int /\ g[p] \in Int
    BY <2>2, <2>3, MaxSizeAssumption
  <2>7. g[p] = f[p] + k
    BY <2>5, <2>6
  <2> HIDE DEF f, g
  <2>8. Total(g) = Total(f) - f[p] + g[p]
    <3>1. IsFiniteSet(Pods)
      BY PodAssumption
    <3> QED
      BY <2>2, <2>3, <2>4, <3>1, TotalUpdate
  <2> DEFINE t == Total(TakenOn(n, v))
  <2>9. nc.req[v] = IF v \in nc.vgs THEN t + Total(f) ELSE 0
    BY <1>0 DEF NodeInv, LedgerInv, f
  <2> HIDE DEF t
  <2>10. x.req[v] = IF v \in nc.vgs THEN t + Total(g) ELSE 0
    BY <1>2, <2>2, <2>6, <2>7, <2>8, <2>9 DEF t
  <2> QED
    BY <1>1, <2>1, <2>10 DEF t, g
<1> QED
  BY <1>4, <1>6, <1>7 DEF NodeInv

\* An event of a pod leaves the nodes alone whose cache it does not change.
LEMMA PodElsewhere ==
    ASSUME ExtenderInv, NEW m \in Nodes, cache'[m] = cache[m],
           UNCHANGED <<claim, pv, nls, used, binding, seenPV, seenNLS>>,
           \A q \in Pods : cache[m].inline[q] # "none" =>
              podNode'[q] = m /\ pod'[q] \in {"running", "gone"} /\ q \in seenPod'
    PROVE  SameNode(m)
<1>0. TypeOK /\ NodeInv(m)
  BY DEF ExtenderInv
<1>1. \A v \in VGs : nls[m].cap[v] <= nls[m].cap[v]
  BY <1>0 DEF TypeOK, Statuses
<1>2. \A d \in Claims :
         pv[d] # None /\ pv[d].phase = "bound" /\ pv[d].node = m /\ seenPV[d] # None
            => cache[m].known
  BY <1>0 DEF NodeInv, StatusInv
<1> QED
  BY <1>1, <1>2 DEF SameNode, OnNode

\* onPodAdd and onPodUpdate keep the invariant of every node: the inline volume of a
\* running pod is charged once.
LEMMA PodSeenNode ==
    ASSUME Faults = {}, ExtenderInv, TypeOK', NEW p \in Pods, NEW m \in Nodes,
           OnPodAdd(p) \/ OnPodUpdate(p)
    PROVE  NodeInv(m)'
<1>n. PICK n : n = podNode[p]
  OBVIOUS
<1>0. TypeOK /\ NodeInv(m)
  BY DEF ExtenderInv
<1>1. /\ UNCHANGED <<pod, podNode, claim, pv, nls, used, binding, seenPV, seenNLS>>
      /\ seenPod \subseteq seenPod' /\ p \in seenPod' /\ InlineInOrder(p)
  BY DEF OnPodAdd, OnPodUpdate, PodHandled, api
<1>2. \/ UNCHANGED cache
      \/ n # None /\ cache' = [cache EXCEPT ![n] = AddPodInlineVolumeInfo(Got(n), p, n)]
  BY <1>n DEF OnPodAdd, OnPodUpdate, WithInline
<1>3. \A q \in Pods : cache[m].inline[q] # "none" =>
         /\ cache[m].inline[q] = "recorded" /\ InlineVG[q] # None
         /\ podNode'[q] = m /\ pod'[q] \in {"running", "gone"} /\ q \in seenPod'
  BY <1>0, <1>1 DEF NodeInv, InlineInv
<1>4. CASE cache'[m] = cache[m]
  <2>1. SameNode(m)
    BY <1>1, <1>3, <1>4, PodElsewhere
  <2> QED
    BY <1>0, <2>1, SameNodeStep
<1>5. CASE cache'[m] # cache[m]
  <2>1. cache \in [Nodes -> NodeCaches] /\ cache[m] \in NodeCaches
    BY <1>0 DEF TypeOK
  <2>2. /\ m = n /\ cache' = [cache EXCEPT ![n] = AddPodInlineVolumeInfo(Got(n), p, n)]
    BY <1>2, <1>5, <2>1
  <2>3. cache'[m] = AddPodInlineVolumeInfo(Got(m), p, m)
    BY <2>1, <2>2
  <2>4. Got(m).vgs = cache[m].vgs /\ Got(m).inline = cache[m].inline
    BY <2>1, GotFields
  <2>5. CASE InlineVG[p] = None \/ pod[p] # "running" \/ podNode[p] # m
             \/ cache[m].inline[p] # "none"
    <3>1. cache'[m] = Got(m)
      BY <2>3, <2>4, <2>5 DEF AddPodInlineVolumeInfo
    <3> DEFINE state == cache[m].inline[p]
    <3>2. InlineChange(cache'[m], cache[m], p, state, 0)
      BY <2>1, <3>1, GotChange
    <3>3. InlineTaken(state, p) \in Int
      BY PodAssumption DEF InlineTaken, Sizes
    <3>4. 0 = InlineTaken(state, p) - InlineTaken(state, p) /\ 0 \in Int
      BY <3>3
    <3>5. seenNLS[m] = None => state = "none"
      BY <1>0 DEF NodeInv, StatusInv
    <3>6. cache'[m].inline = cache[m].inline
      BY <2>4, <3>1
    <3>7. InlineInv(m)'
      BY <1>1, <1>3, <3>6 DEF InlineInv
    <3> QED
      BY <1>1, <3>2, <3>4, <3>5, <3>7, InlineNode, Zenon
  <2>6. CASE /\ InlineVG[p] # None /\ pod[p] = "running" /\ podNode[p] = m
             /\ cache[m].inline[p] = "none"
    <3>1. InlineVG[p] \in cache[m].vgs
      BY <1>1, <2>6, NoneAssumption DEF InlineInOrder
    <3>2. cache'[m] = [Charge(Got(m), InlineVG[p], InlineSize[p]) EXCEPT !.inline[p] = "recorded"]
      BY <2>3, <2>4, <2>6, <3>1 DEF AddPodInlineVolumeInfo
    <3>3. InlineSize[p] \in Int
      BY PodAssumption DEF Sizes
    <3>4. InlineChange(cache'[m], cache[m], p, "recorded", InlineSize[p])
      BY <2>1, <3>2, <3>3, InlineFields, Zenon
    <3>5. InlineSize[p] = InlineTaken("recorded", p) - InlineTaken(cache[m].inline[p], p)
      BY <2>6, <3>3 DEF InlineTaken
    <3>6. seenNLS[m] # None
      BY <1>0, <3>1 DEF NodeInv, StatusInv
    <3>7. cache'[m].inline = [cache[m].inline EXCEPT ![p] = "recorded"]
      BY <3>4 DEF InlineChange
    <3>8. \A q \in Pods : q # p => cache'[m].inline[q] = cache[m].inline[q]
      BY <2>1, <3>7 DEF NodeCaches
    <3>9. cache'[m].inline[p] = "recorded"
      BY <2>1, <3>7 DEF NodeCaches
    <3>10. InlineInv(m)'
      BY <1>1, <1>3, <2>6, <3>8, <3>9 DEF InlineInv
    <3> QED
      BY <1>1, <3>3, <3>4, <3>5, <3>6, <3>10, InlineNode, Zenon
  <2> QED
    BY <2>5, <2>6
<1> QED
  BY <1>4, <1>5

\* onPodDelete keeps the invariant of every node: a charged inline volume belongs to a
\* pod whose deletion does not give up early, so its charge goes.
LEMMA PodGoneNode ==
    ASSUME Faults = {}, ExtenderInv, TypeOK', NEW p \in Pods, NEW m \in Nodes, OnPodDelete(p)
    PROVE  NodeInv(m)'
<1>n. PICK n : n = podNode[p]
  OBVIOUS
<1>0. TypeOK /\ NodeInv(m)
  BY DEF ExtenderInv
<1>1. /\ UNCHANGED <<claim, pv, nls, used, binding, seenPV, seenNLS>> /\ pod[p] = "gone"
      /\ \A q \in Pods : q # p => /\ pod'[q] = pod[q] /\ podNode'[q] = podNode[q]
                                  /\ q \in seenPod => q \in seenPod'
  BY <1>0 DEF OnPodDelete, TypeOK
<1>2. \/ /\ UNCHANGED cache
         /\ ~(p \in seenPod /\ Listed(p) /\ HasVolumes(p)) \/ n = None
      \/ n # None /\ cache' = [cache EXCEPT ![n] = DeletePodInlineVolumeInfo(Got(n), p)]
  BY <1>n DEF OnPodDelete
<1>3. \A q \in Pods : cache[m].inline[q] # "none" =>
         /\ cache[m].inline[q] = "recorded" /\ InlineVG[q] # None
         /\ podNode[q] = m /\ pod[q] \in {"running", "gone"} /\ q \in seenPod
  BY <1>0 DEF NodeInv, InlineInv
<1>4. cache[m].inline[p] # "none" => n = m /\ p \in seenPod /\ Listed(p) /\ HasVolumes(p)
  BY <1>n, <1>1, <1>3 DEF HasVolumes, ExtenderInv, PodInv
<1>5. cache \in [Nodes -> NodeCaches] /\ cache[m] \in NodeCaches
  BY <1>0 DEF TypeOK
<1>6. CASE cache'[m] = cache[m] /\ cache[m].inline[p] = "none"
  <2>1. SameNode(m)
    BY <1>1, <1>3, <1>6, PodElsewhere
  <2> QED
    BY <1>0, <2>1, SameNodeStep
<1>7. CASE ~(cache'[m] = cache[m] /\ cache[m].inline[p] = "none")
  <2>1. m = n /\ cache' = [cache EXCEPT ![n] = DeletePodInlineVolumeInfo(Got(n), p)]
    BY <1>2, <1>4, <1>5, <1>7, NoneAssumption
  <2>2. cache'[m] = DeletePodInlineVolumeInfo(Got(m), p)
    BY <1>5, <2>1
  <2>3. Got(m).inline = cache[m].inline
    BY <1>5, GotFields
  <2>4. CASE cache[m].inline[p] = "none"
    <3>1. cache'[m] = Got(m)
      BY <2>2, <2>3, <2>4 DEF DeletePodInlineVolumeInfo
    <3>2. InlineChange(cache'[m], cache[m], p, "none", 0)
      BY <1>5, <2>4, <3>1, GotChange
    <3>3. 0 = InlineTaken("none", p) - InlineTaken(cache[m].inline[p], p) /\ 0 \in Int
      BY <2>4 DEF InlineTaken
    <3>4. cache'[m].inline = cache[m].inline
      BY <2>3, <3>1
    <3>5. InlineInv(m)'
      BY <1>1, <1>3, <2>4, <3>4 DEF InlineInv
    <3> QED
      BY <1>1, <3>2, <3>3, <3>5, InlineNode, Zenon
  <2>5. CASE cache[m].inline[p] # "none"
    <3> DEFINE amount == 0 - InlineSize[p]
    <3>1. cache'[m] = [Charge(Got(m), InlineVG[p], amount) EXCEPT !.inline[p] = "none"]
      BY <2>2, <2>3, <2>5 DEF DeletePodInlineVolumeInfo
    <3>2. InlineSize[p] \in Int /\ amount \in Int
      BY PodAssumption DEF Sizes
    <3>3. amount = InlineTaken("none", p) - InlineTaken(cache[m].inline[p], p)
      BY <2>5, <3>2 DEF InlineTaken
    <3> HIDE DEF amount
    <3>4. InlineChange(cache'[m], cache[m], p, "none", amount)
      BY <1>5, <3>1, <3>2, InlineFields, Zenon
    <3>5. cache'[m].inline = [cache[m].inline EXCEPT ![p] = "none"]
      BY <3>4 DEF InlineChange
    <3>6. \A q \in Pods : q # p => cache'[m].inline[q] = cache[m].inline[q]
      BY <1>5, <3>5 DEF NodeCaches
    <3>7. cache'[m].inline[p] = "none"
      BY <1>5, <3>5 DEF NodeCaches
    <3>8. InlineInv(m)'
      BY <1>1, <1>3, <3>6, <3>7 DEF InlineInv
    <3> QED
      BY <1>1, <3>2, <3>3, <3>4, <3>8, InlineNode, Zenon
  <2> QED
    BY <2>4, <2>5
<1> QED
  BY <1>6, <1>7

----------------------------------------------------------------------------
(* The event of a NodeLocalStorage *)

\* A volume that the cache of its node knows is where its claim may be, backed by
\* BindingInfo, and at least as large as the claim asks for.
LEMMA SeenVolume ==
    ASSUME TypeOK, NEW c \in Claims, InStage(c), NEW n, OnNode(c, n)
    PROVE  /\ seenPV[c].where \in Fitting(c) /\ Backed(c, n, seenPV[c].where)
           /\ seenPV[c].size >= Size[c] /\ seenPV[c] \in Volumes /\ n \in Nodes
<1>1. seenPV[c] # None /\ seenPV[c].phase = "bound" /\ seenPV[c].node = n
  BY DEF OnNode
<1>2. seenPV[c] \in Volumes /\ n \in Nodes
  BY <1>1 DEF TypeOK, Volumes
<1>3. Bound(c) \/ Deleted(c)
  BY <1>1 DEF InStage, Absent, Waiting, Made
<1>4. CASE Bound(c)
  BY <1>1, <1>2, <1>4 DEF Bound
<1>5. CASE Deleted(c)
  BY <1>1, <1>2, <1>5 DEF Deleted
<1> QED
  BY <1>3, <1>4, <1>5

\* The fields of a node cache after the event of a NodeLocalStorage.
LEMMA StatusFields ==
    ASSUME TypeOK, NEW n \in Nodes, StatusInv(n), OnNodeLocalStorage(n)
    PROVE  LET nc == cache[n]
               x == cache'[n]
               st == nls[n]
           IN  /\ x.known /\ x.vgs = VGs /\ x.cap = st.cap
               /\ x.disks = st.disks \cup (nc.disks \cap nc.held)
               /\ x.held = nc.held \cup {d \in st.disks \ nc.disks : IsLocalPVExist(nc, d)}
               /\ x.records = nc.records /\ x.localPVs = nc.localPVs /\ x.inline = nc.inline
               /\ \A v \in VGs : x.req[v] = (IF v \in nc.vgs THEN nc.req[v] ELSE SizeOn(nc, v))
                                            + Unrecorded(nc, v)
<1> DEFINE nc == cache[n]
           x == cache'[n]
           st == nls[n]
           q == [v \in VGs |-> (IF v \in nc.vgs THEN nc.req[v] ELSE SizeOn(nc, v))
                              + Unrecorded(nc, v)]
           y == UpdateVGs(nc, st)
           h == nc.held \cup {d \in st.disks \ nc.disks : IsLocalPVExist(nc, d)}
           D == st.disks \cup (nc.disks \cap nc.held)
<1>1. nc \in NodeCaches /\ x = IF nc.known THEN UpdateNodeInfo(nc, st)
                               ELSE NewNodeCacheFromStorage(st)
  BY DEF OnNodeLocalStorage, TypeOK
<1>2. CASE nc.known
  <2>1. x = UpdateDisks(y, st)
    BY <1>1, <1>2 DEF UpdateNodeInfo
  <2>2. y = [nc EXCEPT !.vgs = VGs, !.cap = st.cap, !.req = q]
    BY DEF UpdateVGs
  <2> HIDE DEF q, y, nc, x, st
  <2>3. /\ y.known = nc.known /\ y.vgs = VGs /\ y.cap = st.cap /\ y.req = q
        /\ y.disks = nc.disks /\ y.held = nc.held /\ y.records = nc.records
        /\ y.localPVs = nc.localPVs /\ y.inline = nc.inline
        /\ y = [known |-> y.known, vgs |-> y.vgs, cap |-> y.cap, req |-> y.req,
                disks |-> y.disks, held |-> y.held, localPVs |-> y.localPVs,
                records |-> y.records, inline |-> y.inline]
    BY <1>1, <2>2 DEF NodeCaches
  <2>4. \A d : IsLocalPVExist(y, d) <=> IsLocalPVExist(nc, d)
    BY <2>3 DEF IsLocalPVExist
  <2>5. h = y.held \cup {d \in st.disks \ y.disks : IsLocalPVExist(y, d)}
        /\ D = st.disks \cup (y.disks \cap y.held)
    BY <2>3, <2>4
  <2>6. x = [y EXCEPT !.held = h, !.disks = D]
    BY <2>1, <2>5, Zenon DEF UpdateDisks
  <2> HIDE DEF h, D
  <2>7. /\ x.known = y.known /\ x.vgs = y.vgs /\ x.cap = y.cap /\ x.req = y.req
        /\ x.disks = D /\ x.held = h /\ x.records = y.records
        /\ x.localPVs = y.localPVs /\ x.inline = y.inline
    BY <2>3, <2>6
  <2>8. \A v \in VGs : x.req[v] = (IF v \in nc.vgs THEN nc.req[v] ELSE SizeOn(nc, v))
                                  + Unrecorded(nc, v)
    BY <2>3, <2>7 DEF q
  <2> QED
    BY <1>2, <2>3, <2>7, <2>8 DEF h, D, nc, x, st
<1>3. CASE ~nc.known
  <2>1. nc = NewNodeCache /\ x = NewNodeCacheFromStorage(st)
    BY <1>1, <1>3 DEF StatusInv
  <2>2. /\ nc.vgs = {} /\ nc.held = {} /\ nc.disks = {}
        /\ nc.records = [c \in Claims |-> None] /\ nc.localPVs = [c \in Claims |-> None]
        /\ nc.inline = [p \in Pods |-> "none"]
    BY <2>1 DEF NewNodeCache
  <2>3. /\ x.known /\ x.vgs = VGs /\ x.cap = st.cap /\ x.disks = st.disks /\ x.held = {}
        /\ x.records = [c \in Claims |-> None] /\ x.localPVs = [c \in Claims |-> None]
        /\ x.inline = [p \in Pods |-> "none"] /\ x.req = [v \in VGs |-> 0]
    BY <2>1 DEF NewNodeCacheFromStorage, NewNodeCache
  <2> HIDE DEF nc, x, st
  <2>4. \A d : ~IsLocalPVExist(nc, d)
    BY <2>2 DEF IsLocalPVExist
  <2>5. \A v \in VGs : SizeOn(nc, v) = 0
    <3> SUFFICES ASSUME NEW v \in VGs PROVE SizeOn(nc, v) = 0
      OBVIOUS
    <3> DEFINE f == [c \in Claims |-> IF nc.localPVs[c] # None /\ nc.localPVs[c].where = v
                                      THEN nc.localPVs[c].size ELSE 0]
    <3>1. f \in [Claims -> 0..MaxSize] /\ \A c \in Claims : f[c] = 0
      BY <2>2, MaxSizeAssumption
    <3> HIDE DEF f
    <3>2. Total(f) = 0
      BY <3>1, TotalZero
    <3> QED
      BY <3>2 DEF SizeOn, f
  <2>6. \A v \in VGs : Unrecorded(nc, v) = 0
    <3> SUFFICES ASSUME NEW v \in VGs PROVE Unrecorded(nc, v) = 0
      OBVIOUS
    <3> DEFINE f == [p \in Pods |-> IF nc.inline[p] = "unrecorded" /\ InlineVG[p] = v
                                    THEN InlineSize[p] ELSE 0]
    <3>1. f \in [Pods -> 0..MaxSize] /\ \A p \in Pods : f[p] = 0
      BY <2>2, MaxSizeAssumption
    <3> HIDE DEF f
    <3>2. Total(f) = 0
      BY <3>1, TotalZero
    <3> QED
      BY <3>2 DEF Unrecorded, f
  <2>7. h = {} /\ D = st.disks
    BY <2>2, <2>4
  <2>8. \A v \in VGs : x.req[v] = (IF v \in nc.vgs THEN nc.req[v] ELSE SizeOn(nc, v))
                                  + Unrecorded(nc, v)
    BY <2>2, <2>3, <2>5, <2>6
  <2> HIDE DEF h, D
  <2> QED
    BY <2>2, <2>3, <2>7, <2>8 DEF h, D, nc, x, st
<1> QED
  BY <1>2, <1>3

\* The event of a NodeLocalStorage keeps the invariant of every node: a volume group
\* that appears is charged for the volumes known on it, a disk that appears is held if
\* a volume is on it.
LEMMA StatusNode ==
    ASSUME Faults = {}, ExtenderInv, TypeOK', NEW n \in Nodes, NEW m \in Nodes,
           OnNodeLocalStorage(n)
    PROVE  NodeInv(m)'
<1>0. TypeOK /\ NodeInv(m) /\ NodeInv(n) /\ \A d \in Claims : InStage(d)
  BY DEF ExtenderInv
<1>1. UNCHANGED <<pod, podNode, claim, pv, nls, used, binding, seenPV, seenPod>>
  BY DEF OnNodeLocalStorage, api
<1>2. /\ \A k \in Nodes : k # n => cache'[k] = cache[k] /\ seenNLS'[k] = seenNLS[k]
      /\ seenNLS'[n] = nls[n] /\ nls[n] \in Statuses /\ nls[n] # None
  BY <1>0, NoneAssumption DEF OnNodeLocalStorage, TypeOK
<1>3. \A d, k : OnNode(d, k)' <=> OnNode(d, k)
  BY <1>1 DEF OnNode
<1>4. CASE m # n
  <2>1. \A v \in VGs : nls[m].cap[v] <= nls[m].cap[v]
    BY <1>0 DEF TypeOK, Statuses
  <2>2. \A q \in Pods : cache[m].inline[q] # "none" =>
            podNode[q] = m /\ pod[q] \in {"running", "gone"} /\ q \in seenPod
    BY <1>0 DEF NodeInv, InlineInv
  <2>3. \A d \in Claims :
           pv[d] # None /\ pv[d].phase = "bound" /\ pv[d].node = m /\ seenPV[d] # None
              => cache[m].known
    BY <1>0 DEF NodeInv, StatusInv
  <2>4. SameNode(m)
    BY <1>1, <1>2, <1>3, <1>4, <2>1, <2>2, <2>3 DEF SameNode
  <2> QED
    BY <1>0, <2>4, SameNodeStep
<1>5. ASSUME m = n PROVE NodeInv(n)'
  <2> DEFINE nc == cache[n]
             x == cache'[n]
             st == nls[n]
  <2>1. /\ x.known /\ x.vgs = VGs /\ x.cap = st.cap
        /\ x.disks = st.disks \cup (nc.disks \cap nc.held)
        /\ x.held = nc.held \cup {d \in st.disks \ nc.disks : IsLocalPVExist(nc, d)}
        /\ x.records = nc.records /\ x.localPVs = nc.localPVs /\ x.inline = nc.inline
        /\ \A v \in VGs : x.req[v] = (IF v \in nc.vgs THEN nc.req[v] ELSE SizeOn(nc, v))
                                     + Unrecorded(nc, v)
    BY <1>0, StatusFields DEF NodeInv
  <2>2. nc \in NodeCaches /\ st.disks \subseteq Disks
    BY <1>0, <1>2 DEF TypeOK, Statuses
  <2> HIDE DEF nc, x, st
  <2>3. VolumesInv(n)' /\ RecordsInv(n)' /\ InlineInv(n)'
    BY <1>0, <1>1, <1>3, <2>1 DEF NodeInv, VolumesInv, RecordsInv, InlineInv, nc, x
  <2>4. StatusInv(n)'
    <3>1. \A v \in VGs : st.cap[v] <= nls[n].cap[v]
      BY <1>2 DEF Statuses, st
    <3> QED
      BY <1>1, <1>2, <2>1, <3>1 DEF StatusInv, x
  <2>5. HeldInv(n)'
    <3>0. HeldInv(n) /\ VolumesInv(n)
      BY <1>0 DEF NodeInv
    <3>1. ASSUME NEW w \in x.held
          PROVE  \E d \in Claims : Kind[d] # "LVM" /\ binding'[d] = Unit(d, n, w)
      <4>1. CASE w \in nc.held
        BY <1>1, <3>0, <4>1 DEF HeldInv, nc
      <4>2. CASE w \notin nc.held
        <5>1. w \in Disks /\ IsLocalPVExist(nc, w)
          BY <2>1, <2>2, <3>1, <4>2
        <5>2. PICK d \in Claims : nc.localPVs[d] # None /\ nc.localPVs[d].where = w
          BY <5>1 DEF IsLocalPVExist
        <5>3. OnNode(d, n) /\ seenPV[d].where = w
          BY <3>0, <5>2 DEF VolumesInv, nc
        <5>4. w \in Fitting(d) /\ Backed(d, n, w)
          BY <1>0, <5>3, SeenVolume
        <5>5. Kind[d] # "LVM"
          BY <5>1, <5>4, StorageAssumption DEF Fitting
        <5>6. binding[d] = Unit(d, n, w)
          BY <5>4, <5>5 DEF Backed, Asks
        <5> QED
          BY <1>1, <5>5, <5>6
      <4> QED
        BY <4>1, <4>2
    <3>2. ASSUME NEW d \in Claims, NEW w \in Disks, Kind[d] # "LVM", binding'[d] = Unit(d, n, w)
          PROVE  /\ w \in x.disks => w \in x.held
                 /\ OnNode(d, n)' \/ w \in x.held
      <4>1. binding[d] = Unit(d, n, w)
        BY <1>1, <3>2
      <4>2. /\ w \in nc.disks => w \in nc.held
            /\ OnNode(d, n) \/ w \in nc.held
        BY <3>0, <3>2, <4>1 DEF HeldInv, nc
      <4>3. OnNode(d, n) => IsLocalPVExist(nc, w)
        <5> SUFFICES ASSUME OnNode(d, n) PROVE IsLocalPVExist(nc, w)
          OBVIOUS
        <5>1. Backed(d, n, seenPV[d].where) /\ Asks(d)
          BY <1>0, <3>2, SeenVolume DEF Asks
        <5>2. seenPV[d].where = w
          BY <4>1, <5>1, UnitFields DEF Backed
        <5>3. nc.localPVs[d] = seenPV[d] /\ seenPV[d] # None
          BY <3>0 DEF VolumesInv, OnNode, nc
        <5> QED
          BY <5>2, <5>3 DEF IsLocalPVExist
      <4> QED
        BY <1>3, <2>1, <4>2, <4>3
    <3> QED
      BY <3>1, <3>2 DEF HeldInv, x
  <2>6. LedgerInv(n)'
    <3> SUFFICES ASSUME NEW v \in VGs
                 PROVE  x.req[v] = Total(TakenOn(n, v)') + Total(InlineOn(n, v)')
      BY <2>1 DEF LedgerInv, x
    <3>1. TakenOn(n, v)' = TakenOn(n, v)
      BY <1>1, <1>3 DEF TakenOn, Taken
    <3>2. InlineOn(n, v)' = InlineOn(n, v)
      BY <2>1 DEF InlineOn, x, nc
    <3>3. Unrecorded(nc, v) = 0
      <4> DEFINE f == [p \in Pods |-> IF nc.inline[p] = "unrecorded" /\ InlineVG[p] = v
                                      THEN InlineSize[p] ELSE 0]
      <4>1. f \in [Pods -> 0..MaxSize] /\ \A p \in Pods : f[p] = 0
        BY <1>0, MaxSizeAssumption DEF NodeInv, InlineInv, nc
      <4> HIDE DEF f
      <4>2. Total(f) = 0
        BY <4>1, TotalZero
      <4> QED
        BY <4>2 DEF Unrecorded, f
    <3>4. Total(TakenOn(n, v)) \in Nat /\ Total(InlineOn(n, v)) \in Nat
      BY <1>0, TakenTotal
    <3>5. CASE v \in nc.vgs
      <4>1. nc.req[v] = Total(TakenOn(n, v)) + Total(InlineOn(n, v))
        BY <1>0, <3>5 DEF NodeInv, LedgerInv, nc
      <4> QED
        BY <2>1, <3>1, <3>2, <3>3, <3>4, <3>5, <4>1
    <3>6. CASE v \notin nc.vgs
      <4>1. seenNLS[n] = None
        BY <1>0, <3>6 DEF NodeInv, StatusInv, nc
      <4>2. /\ \A d \in Claims : nc.records[d] = None
            /\ \A p \in Pods : nc.inline[p] = "none"
        BY <1>0, <4>1 DEF NodeInv, StatusInv, nc
      <4>3. SizeOn(nc, v) = Total(TakenOn(n, v))
        <5> DEFINE f == [d \in Claims |-> IF nc.localPVs[d] # None /\ nc.localPVs[d].where = v
                                          THEN nc.localPVs[d].size ELSE 0]
        <5>1. ASSUME NEW d \in Claims PROVE f[d] = Taken(n, v, d)
          <6>1. nc.localPVs[d] = IF OnNode(d, n) THEN seenPV[d] ELSE None
            BY <1>0 DEF NodeInv, VolumesInv, nc
          <6>2. OnNode(d, n) => seenPV[d] # None
            BY DEF OnNode
          <6>3. ~OnNode(d, n) => binding[d] # Unit(d, n, v)
            <7> SUFFICES ASSUME ~OnNode(d, n), binding[d] = Unit(d, n, v) PROVE FALSE
              OBVIOUS
            <7>1. binding[d] # None /\ binding[d].node = n
              BY UnitNotNone, UnitFields
            <7> QED
              BY <1>0, <4>2, <7>1 DEF NodeInv, RecordsInv, nc
          <6> QED
            BY <6>1, <6>2, <6>3 DEF Taken
        <5>2. f = TakenOn(n, v)
          BY <5>1 DEF TakenOn
        <5> QED
          BY <5>2 DEF SizeOn
      <4>4. Total(InlineOn(n, v)) = 0
        <5>1. \A p \in Pods : InlineOn(n, v)[p] = 0
          BY <4>2 DEF InlineOn, nc
        <5>2. InlineOn(n, v) \in [Pods -> 0..MaxSize]
          BY <1>0, TakenTotal
        <5> QED
          BY <5>1, <5>2, TotalZero
      <4> QED
        BY <2>1, <3>1, <3>2, <3>3, <3>4, <3>6, <4>3, <4>4
    <3> QED
      BY <3>5, <3>6
  <2> QED
    BY <2>3, <2>4, <2>5, <2>6 DEF NodeInv
<1> QED
  BY <1>4, <1>5

\* Every step keeps the invariant of every node.
LEMMA NodesStep ==
    ASSUME Faults = {}, PlacesCounted, ExtenderInv, TypeOK', Next, NEW m \in Nodes
    PROVE  NodeInv(m)'
<1>0. TypeOK /\ NodeInv(m)
  BY DEF ExtenderInv
<1>1. CASE Restart
  BY <1>1, RestartNode
<1>2. ASSUME NEW n \in Nodes, OnNodeLocalStorage(n) \/ ChangeNLS(n)
      PROVE  NodeInv(m)'
  BY <1>0, <1>2, StatusNode, QuietNodeStep, SameNodeStep
<1>3. ASSUME NEW p \in Pods, NextPod(p)
      PROVE  NodeInv(m)'
  <2>1. CASE CreatePod(p) \/ Schedule(p) \/ RunPod(p) \/ DeletePod(p)
    BY <1>0, <2>1, QuietPodStep, SameNodeStep
  <2>2. CASE OnPodAdd(p) \/ OnPodUpdate(p)
    BY <2>2, PodSeenNode
  <2>3. CASE OnPodDelete(p)
    BY <2>3, PodGoneNode
  <2> QED
    BY <1>3, <2>1, <2>2, <2>3 DEF NextPod
<1>4. ASSUME NEW c \in Claims, NextClaim(c)
      PROVE  NodeInv(m)'
  <2>1. CASE \/ OnPvcUpdate(c) \/ SchedulingPVCAgain(c) \/ CreateVolumeNamed(c)
             \/ VolumeCreated(c) \/ VolumeFailed(c) \/ BindPV(c) \/ ExpandPV(c)
             \/ DeleteClaim(c) \/ RemoveSelectedNode(c)
    <3>1. SameNode(m)
      BY <2>1, QuietClaimStep, Zenon
    <3> QED
      BY <1>0, <3>1, SameNodeStep
  <2>2. CASE OnPVAdd(c)
    BY <2>2, AddNode
  <2>3. CASE OnPVUpdate(c)
    BY <2>3, UpdateNode
  <2>4. CASE OnPVDelete(c)
    BY <2>4, DeleteNode
  <2>5. CASE SchedulingPVC(c)
    BY <2>5, RequestNode
  <2> QED
    BY <1>4, <2>1, <2>2, <2>3, <2>4, <2>5 DEF NextClaim
<1> QED
  BY <1>1, <1>2, <1>3, <1>4 DEF Next


----------------------------------------------------------------------------
(* The room on the volume groups *)

\* What the volume of c, and the inline volume of p, take in v on n.
UsedSize(n, v, c) ==
    IF pv[c] # None /\ pv[c].node = n /\ pv[c].where = v THEN pv[c].size ELSE 0
RunSize(n, v, p) ==
    IF podNode[p] = n /\ InlineVG[p] = v /\ pod[p] = "running" THEN InlineSize[p] ELSE 0

UsedSizes(n, v) == [c \in Claims |-> UsedSize(n, v, c)]
RunSizes(n, v)  == [p \in Pods |-> RunSize(n, v, p)]
Promises(n, v)  == [c \in Claims |-> Promise(n, v, c)]

\* They are functions into the sizes, and their totals are numbers.
LEMMA RoomTypes ==
    ASSUME TypeOK, NEW n, NEW v
    PROVE  /\ UsedSizes(n, v) \in [Claims -> 0..MaxSize]
           /\ RunSizes(n, v) \in [Pods -> 0..MaxSize]
           /\ Promises(n, v) \in [Claims -> 0..MaxSize]
           /\ UsedOn(n, v) = Total(UsedSizes(n, v)) /\ UsedOn(n, v) \in Nat
           /\ Inline(n, v) = Total(RunSizes(n, v)) /\ Inline(n, v) \in Nat
           /\ Total(Promises(n, v)) \in Nat
<1>1. UsedSizes(n, v) \in [Claims -> 0..MaxSize]
  BY MaxSizeAssumption DEF TypeOK, UsedSizes, UsedSize, Volumes, Sizes
<1>2. RunSizes(n, v) \in [Pods -> 0..MaxSize]
  BY PodAssumption, MaxSizeAssumption DEF RunSizes, RunSize, Sizes
<1>3. Promises(n, v) \in [Claims -> 0..MaxSize]
  BY SizeAssumption, MaxSizeAssumption DEF Promises, Promise, Sizes
<1>4. UsedOn(n, v) = Total(UsedSizes(n, v)) /\ Inline(n, v) = Total(RunSizes(n, v))
  BY DEF UsedOn, Inline, UsedSizes, UsedSize, RunSizes, RunSize
<1>5. IsFiniteSet(Pods) /\ IsFiniteSet(Claims)
  BY PodAssumption, StorageAssumption
<1> QED
  BY <1>1, <1>2, <1>3, <1>4, <1>5, TotalType

\* Volumes and inline volumes still fit if no one takes more and the capacity does not
\* shrink.
LEMMA RoomKept ==
    ASSUME TypeOK, TypeOK', NEW n \in Nodes, NEW v \in VGs, Room(n, v, 0),
           \A c \in Claims : UsedSize(n, v, c)' <= UsedSize(n, v, c),
           \A p \in Pods : RunSize(n, v, p)' <= RunSize(n, v, p),
           nls[n].cap[v] <= nls'[n].cap[v]
    PROVE  Room(n, v, 0)'
<1> DEFINE f == UsedSizes(n, v)
           g == UsedSizes(n, v)'
           h == RunSizes(n, v)
           k == RunSizes(n, v)'
<1>1. /\ f \in [Claims -> 0..MaxSize] /\ h \in [Pods -> 0..MaxSize]
      /\ UsedOn(n, v) = Total(f) /\ Inline(n, v) = Total(h)
  BY RoomTypes
<1>2. g \in [Claims -> 0..MaxSize] /\ k \in [Pods -> 0..MaxSize]
  <2>1. g \in [Claims -> 0..MaxSize]
    BY MaxSizeAssumption DEF TypeOK, UsedSizes, UsedSize, Volumes, Sizes
  <2>2. k \in [Pods -> 0..MaxSize]
    BY PodAssumption, MaxSizeAssumption DEF RunSizes, RunSize, Sizes
  <2> QED
    BY <2>1, <2>2
<1>3. UsedOn(n, v)' = Total(g) /\ Inline(n, v)' = Total(k)
  BY DEF UsedOn, Inline, UsedSizes, UsedSize, RunSizes, RunSize
<1>4. \A c \in Claims : g[c] <= f[c]
  BY DEF UsedSizes
<1>5. \A p \in Pods : k[p] <= h[p]
  BY DEF RunSizes
<1>6. IsFiniteSet(Pods) /\ IsFiniteSet(Claims)
  BY PodAssumption, StorageAssumption
<1>7. nls[n].cap[v] \in Int /\ nls'[n].cap[v] \in Int
  BY DEF TypeOK, Statuses
<1>8. Total(f) + Total(h) + 0 <= nls[n].cap[v]
  BY <1>1 DEF Room
<1> HIDE DEF f, g, h, k
<1>9. Total(g) <= Total(f) /\ Total(k) <= Total(h)
  BY <1>1, <1>2, <1>4, <1>5, <1>6, TotalMonotone
<1>10. Total(f) \in Nat /\ Total(g) \in Nat /\ Total(h) \in Nat /\ Total(k) \in Nat
  BY <1>1, <1>2, <1>6, TotalType
<1>11. Total(g) + Total(k) + 0 <= nls'[n].cap[v]
  BY <1>7, <1>8, <1>9, <1>10
<1> QED
  BY <1>3, <1>11 DEF Room

\* They still fit if only one volume grows, and there was room for that.
LEMMA RoomForVolume ==
    ASSUME TypeOK, TypeOK', NEW n \in Nodes, NEW v \in VGs, NEW c \in Claims, NEW size \in Int,
           Room(n, v, size), UsedSize(n, v, c)' = UsedSize(n, v, c) + size,
           \A d \in Claims : d # c => UsedSize(n, v, d)' = UsedSize(n, v, d),
           UNCHANGED <<pod, podNode, nls>>
    PROVE  Room(n, v, 0)'
<1> DEFINE f == UsedSizes(n, v)
           g == UsedSizes(n, v)'
<1>1. /\ f \in [Claims -> 0..MaxSize] /\ UsedOn(n, v) = Total(f) /\ Inline(n, v) \in Nat
  BY RoomTypes
<1>2. g \in [Claims -> 0..MaxSize]
  BY MaxSizeAssumption DEF TypeOK, UsedSizes, UsedSize, Volumes, Sizes
<1>3. UsedOn(n, v)' = Total(g) /\ Inline(n, v)' = Inline(n, v)
  BY DEF UsedOn, Inline, UsedSizes, UsedSize
<1>4. (\A d \in Claims : d # c => g[d] = f[d]) /\ g[c] = f[c] + size
  BY DEF UsedSizes
<1>5. nls[n].cap[v] \in Int
  BY DEF TypeOK, Statuses
<1>6. Total(f) + Inline(n, v) + size <= nls[n].cap[v]
  BY <1>1 DEF Room
<1> HIDE DEF f, g
<1>7. Total(g) = Total(f) - f[c] + g[c]
  BY <1>1, <1>2, <1>4, TotalUpdate, StorageAssumption
<1>8. Total(f) \in Nat /\ f[c] \in Int
  BY <1>1, TotalType, StorageAssumption, MaxSizeAssumption
<1>9. Total(g) + Inline(n, v) + 0 <= nls[n].cap[v]
  BY <1>1, <1>4, <1>5, <1>6, <1>7, <1>8
<1> QED
  BY <1>3, <1>9 DEF Room

\* They still fit if only one inline volume comes, and there was room for it.
LEMMA RoomForInline ==
    ASSUME TypeOK, TypeOK', NEW n \in Nodes, NEW v \in VGs, NEW p \in Pods, NEW size \in Int,
           Room(n, v, size), RunSize(n, v, p)' = RunSize(n, v, p) + size,
           \A q \in Pods : q # p => RunSize(n, v, q)' = RunSize(n, v, q),
           UNCHANGED <<pv, nls>>
    PROVE  Room(n, v, 0)'
<1> DEFINE f == RunSizes(n, v)
           g == RunSizes(n, v)'
<1>1. /\ f \in [Pods -> 0..MaxSize] /\ Inline(n, v) = Total(f) /\ UsedOn(n, v) \in Nat
  BY RoomTypes
<1>2. g \in [Pods -> 0..MaxSize]
  BY PodAssumption, MaxSizeAssumption DEF RunSizes, RunSize, Sizes
<1>3. Inline(n, v)' = Total(g) /\ UsedOn(n, v)' = UsedOn(n, v)
  BY DEF UsedOn, Inline, RunSizes, RunSize
<1>4. (\A q \in Pods : q # p => g[q] = f[q]) /\ g[p] = f[p] + size
  BY DEF RunSizes
<1>5. nls[n].cap[v] \in Int
  BY DEF TypeOK, Statuses
<1>6. UsedOn(n, v) + Total(f) + size <= nls[n].cap[v]
  BY <1>1 DEF Room
<1>7. IsFiniteSet(Pods)
  BY PodAssumption
<1> HIDE DEF f, g
<1>8. Total(g) = Total(f) - f[p] + g[p]
  BY <1>1, <1>2, <1>4, <1>7, TotalUpdate
<1>9. Total(f) \in Nat /\ f[p] \in Int
  BY <1>1, <1>7, TotalType, MaxSizeAssumption
<1>10. UsedOn(n, v) + Total(g) + 0 <= nls[n].cap[v]
  BY <1>1, <1>4, <1>5, <1>6, <1>8, <1>9
<1> QED
  BY <1>3, <1>10 DEF Room

\* Every step leaves room for the volumes and the inline volumes there are: CreateVolume,
\* an expansion and a pod that starts only succeed where there is room.
LEMMA RoomStep ==
    ASSUME Faults = {}, ExtenderInv, TypeOK', Next, NEW n \in Nodes, NEW v \in VGs
    PROVE  Room(n, v, 0)'
<1> USE DEF api, extender, seen
<1>0. TypeOK /\ Room(n, v, 0) /\ \A d \in Claims : InStage(d)
  BY DEF ExtenderInv, RoomInv
<1>1. /\ \A c \in Claims : UsedSize(n, v, c) \in Int
      /\ \A p \in Pods : RunSize(n, v, p) \in Int
      /\ nls[n].cap[v] \in Int
  <2>1. /\ UsedSizes(n, v) \in [Claims -> 0..MaxSize]
        /\ RunSizes(n, v) \in [Pods -> 0..MaxSize]
    BY <1>0, RoomTypes
  <2>2. nls[n].cap[v] \in Int
    BY <1>0 DEF TypeOK, Statuses
  <2> QED
    BY <2>1, <2>2, MaxSizeAssumption DEF UsedSizes, RunSizes
<1>2. ASSUME \A c \in Claims : UsedSize(n, v, c)' = UsedSize(n, v, c) \/ UsedSize(n, v, c)' = 0,
             \A p \in Pods : RunSize(n, v, p)' = RunSize(n, v, p) \/ RunSize(n, v, p)' = 0,
             UNCHANGED nls
      PROVE  Room(n, v, 0)'
  <2>1. /\ \A c \in Claims : 0 <= UsedSize(n, v, c)
        /\ \A p \in Pods : 0 <= RunSize(n, v, p)
    BY <1>0, PodAssumption, MaxSizeAssumption DEF UsedSize, RunSize, TypeOK, Volumes, Sizes
  <2>2. /\ \A c \in Claims : UsedSize(n, v, c)' <= UsedSize(n, v, c)
        /\ \A p \in Pods : RunSize(n, v, p)' <= RunSize(n, v, p)
        /\ nls[n].cap[v] <= nls'[n].cap[v]
    BY <1>1, <1>2, <2>1
  <2> QED
    BY <1>0, <2>2, RoomKept
<1>3. CASE UNCHANGED <<pv, pod, podNode, nls>>
  BY <1>2, <1>3 DEF UsedSize, RunSize
<1>4. CASE Restart
  BY <1>3, <1>4 DEF Restart
<1>5. ASSUME NEW m \in Nodes, OnNodeLocalStorage(m) \/ ChangeNLS(m)
      PROVE  Room(n, v, 0)'
  <2>1. CASE OnNodeLocalStorage(m)
    BY <1>3, <2>1 DEF OnNodeLocalStorage
  <2>2. CASE ChangeNLS(m)
    <3>1. nls[n].cap[v] <= nls'[n].cap[v]
      BY <2>2, QuietNodeStep DEF SameNode
    <3>2. UNCHANGED <<pv, pod, podNode>>
      BY <2>2 DEF ChangeNLS
    <3>3. /\ \A c \in Claims : UsedSize(n, v, c)' <= UsedSize(n, v, c)
          /\ \A p \in Pods : RunSize(n, v, p)' <= RunSize(n, v, p)
      BY <1>1, <3>2 DEF UsedSize, RunSize
    <3> QED
      BY <1>0, <3>1, <3>3, RoomKept
  <2> QED
    BY <1>5, <2>1, <2>2
<1>6. ASSUME NEW p \in Pods, NextPod(p)
      PROVE  Room(n, v, 0)'
  <2>0. UNCHANGED <<pv, nls>>
    BY <1>6 DEF NextPod, CreatePod, OnPodAdd, OnPodUpdate, OnPodDelete, PodHandled, Schedule,
                RunPod, DeletePod
  <2>1. CASE RunPod(p)
    <3>1. PICK m : /\ InlineVG[p] # None => Room(m, InlineVG[p], InlineSize[p])
                   /\ podNode' = [podNode EXCEPT ![p] = m]
      BY <2>1 DEF RunPod
    <3>2. pod' = [pod EXCEPT ![p] = "running"] /\ pod[p] = "pending"
      BY <2>1 DEF RunPod
    <3>3. /\ pod'[p] = "running" /\ podNode'[p] = m
          /\ \A q \in Pods : q # p => pod'[q] = pod[q] /\ podNode'[q] = podNode[q]
      BY <1>0, <3>1, <3>2 DEF TypeOK
    <3>4. \A q \in Pods : q # p => RunSize(n, v, q)' = RunSize(n, v, q)
      BY <3>3 DEF RunSize
    <3>5. RunSize(n, v, p) = 0 /\ RunSize(n, v, p)' = IF m = n /\ InlineVG[p] = v
                                                     THEN InlineSize[p] ELSE 0
      BY <3>2, <3>3 DEF RunSize
    <3>6. CASE m = n /\ InlineVG[p] = v
      <4>1. InlineSize[p] \in Int
        BY PodAssumption DEF Sizes
      <4>2. Room(n, v, InlineSize[p])
        BY <3>1, <3>6, StorageAssumption
      <4>3. RunSize(n, v, p)' = RunSize(n, v, p) + InlineSize[p]
        BY <3>5, <3>6, <4>1
      <4> QED
        BY <1>0, <2>0, <3>4, <4>1, <4>2, <4>3, RoomForInline
    <3>7. CASE ~(m = n /\ InlineVG[p] = v)
      BY <1>2, <2>0, <3>4, <3>5, <3>7 DEF UsedSize
    <3> QED
      BY <3>6, <3>7
  <2>2. CASE CreatePod(p) \/ DeletePod(p) \/ OnPodDelete(p)
    <3>1. /\ \A q \in Pods : q # p => pod'[q] = pod[q] /\ podNode'[q] = podNode[q]
          /\ pod'[p] # "running"
      BY <1>0, <2>2 DEF CreatePod, DeletePod, OnPodDelete, TypeOK
    <3> QED
      BY <1>2, <2>0, <3>1 DEF UsedSize, RunSize
  <2>3. CASE Schedule(p) \/ OnPodAdd(p) \/ OnPodUpdate(p)
    BY <1>3, <2>3 DEF Schedule, OnPodAdd, OnPodUpdate, PodHandled
  <2> QED
    BY <1>6, <2>1, <2>2, <2>3 DEF NextPod
<1>7. ASSUME NEW c \in Claims, NextClaim(c)
      PROVE  Room(n, v, 0)'
  <2>1. CASE VolumeCreated(c)
    <3>1. PICK m, w : /\ m = answer[c].target /\ w = answer[c].unit.where
      OBVIOUS
    <3>2. /\ Kind[c] = "LVM" => Room(m, w, Size[c])
          /\ pv' = [pv EXCEPT ![c] = [phase |-> "pending", node |-> m, where |-> w,
                                      size |-> Size[c]]]
          /\ UNCHANGED <<pod, podNode, nls>> /\ answer[c] # None
      BY <2>1, <3>1 DEF VolumeCreated
    <3>3. Waiting(c)
      BY <1>0, <3>2, StageOf
    <3>4. w \in Fitting(c) /\ pv[c] = None
      <4>1. PICK y \in Fitting(c) :
               answer[c] = [target |-> selected[c], unit |-> Unit(c, selected[c], y)]
        BY <3>2, <3>3 DEF Waiting
      <4>2. answer[c].unit = Unit(c, selected[c], y)
        BY <4>1
      <4>3. w = y
        BY <3>1, <4>2, UnitFields
      <4> QED
        BY <3>3, <4>3 DEF Waiting
    <3>5. /\ pv'[c].node = m /\ pv'[c].where = w /\ pv'[c].size = Size[c]
          /\ \A d \in Claims : d # c => pv'[d] = pv[d]
      BY <1>0, <3>2 DEF TypeOK
    <3>6. pv'[c] # None
      <4>1. answer[c] \in Answers
        BY <1>0, <3>2 DEF TypeOK
      <4>2. pv'[c] \in Volumes
        BY <1>0, <3>1, <3>2, <4>1, SizeAssumption DEF TypeOK, Volumes, Answers, Places
      <4> QED
        BY <4>2, NoneAssumption
    <3>7. \A d \in Claims : d # c => UsedSize(n, v, d)' = UsedSize(n, v, d)
      BY <3>5 DEF UsedSize
    <3>8. UsedSize(n, v, c) = 0 /\ UsedSize(n, v, c)' = IF m = n /\ w = v THEN Size[c] ELSE 0
      BY <3>4, <3>5, <3>6 DEF UsedSize
    <3>9. CASE m = n /\ w = v
      <4>1. Kind[c] = "LVM"
        BY <3>4, <3>9, StorageAssumption DEF Fitting
      <4>2. Room(n, v, Size[c]) /\ Size[c] \in Int
        BY <3>2, <3>9, <4>1, SizeAssumption DEF Sizes
      <4>3. UsedSize(n, v, c)' = UsedSize(n, v, c) + Size[c]
        BY <3>8, <3>9, <4>2
      <4> QED
        BY <1>0, <3>2, <3>7, <4>2, <4>3, RoomForVolume
    <3>10. CASE ~(m = n /\ w = v)
      BY <1>2, <3>2, <3>7, <3>8, <3>10 DEF RunSize
    <3> QED
      BY <3>9, <3>10
  <2>2. CASE BindPV(c)
    <3>1. /\ pv' = [pv EXCEPT ![c].phase = "bound"] /\ pv[c] # None
          /\ UNCHANGED <<pod, podNode, nls>>
      BY <2>2 DEF BindPV
    <3>2. /\ \A d \in Claims : d # c => pv'[d] = pv[d]
          /\ pv'[c].node = pv[c].node /\ pv'[c].where = pv[c].where /\ pv'[c].size = pv[c].size
      BY <1>0, <3>1 DEF TypeOK, Volumes
    <3> QED
      BY <1>2, <3>1, <3>2 DEF UsedSize, RunSize
  <2>3. CASE ExpandPV(c)
    <3>1. PICK m, w : m = pv[c].node /\ w = pv[c].where
      OBVIOUS
    <3>2. /\ pv' = [pv EXCEPT ![c].size = @ + 1] /\ pv[c] # None /\ Room(m, w, 1)
          /\ UNCHANGED <<pod, podNode, nls>>
      BY <2>3, <3>1 DEF ExpandPV
    <3>3. pv[c] \in Volumes
      BY <1>0, <3>2 DEF TypeOK
    <3>4. /\ \A d \in Claims : d # c => pv'[d] = pv[d]
          /\ pv'[c].node = m /\ pv'[c].where = w /\ pv'[c].size = pv[c].size + 1
      BY <1>0, <3>1, <3>2, <3>3 DEF TypeOK, Volumes
    <3>5. pv'[c] # None
      <4>1. claim[c] = "bound" /\ claim' = claim
        <5>1. Bound(c)
          BY <1>0, <2>3, StageOf DEF ExpandPV, Made
        <5> QED
          BY <2>3, <5>1 DEF ExpandPV, Bound
      <4> QED
        BY <4>1 DEF TypeOK
    <3>6. \A d \in Claims : d # c => UsedSize(n, v, d)' = UsedSize(n, v, d)
      BY <3>4 DEF UsedSize
    <3>7. CASE m = n /\ w = v
      <4>1. UsedSize(n, v, c)' = UsedSize(n, v, c) + 1
        BY <3>1, <3>2, <3>4, <3>5, <3>7 DEF UsedSize
      <4>2. Room(n, v, 1)
        BY <3>2, <3>7
      <4> QED
        BY <1>0, <3>2, <3>6, <4>1, <4>2, RoomForVolume
    <3>8. CASE ~(m = n /\ w = v)
      <4>1. UsedSize(n, v, c)' = 0
        BY <3>4, <3>8 DEF UsedSize
      <4> QED
        BY <1>2, <3>2, <3>6, <4>1 DEF RunSize
    <3> QED
      BY <3>7, <3>8
  <2>4. CASE DeleteClaim(c)
    <3>1. /\ pv'[c] = None /\ \A d \in Claims : d # c => pv'[d] = pv[d]
          /\ UNCHANGED <<pod, podNode, nls>>
      BY <1>0, <2>4 DEF DeleteClaim, TypeOK
    <3> QED
      BY <1>2, <3>1 DEF UsedSize, RunSize
  <2>5. CASE OnPVAdd(c) \/ OnPVUpdate(c) \/ OnPVDelete(c) \/ OnPvcUpdate(c)
    BY <1>3, <2>5 DEF OnPVAdd, OnPVUpdate, OnPVDelete, OnPvcUpdate, PVHandled
  <2>6. CASE SchedulingPVC(c) \/ SchedulingPVCAgain(c) \/ CreateVolumeNamed(c)
    BY <1>3, <2>6 DEF SchedulingPVC, SchedulingPVCAgain, CreateVolumeNamed
  <2>7. CASE VolumeFailed(c) \/ RemoveSelectedNode(c)
    BY <1>3, <2>7 DEF VolumeFailed, RemoveSelectedNode
  <2> QED
    BY <1>7, <2>1, <2>2, <2>3, <2>4, <2>5, <2>6, <2>7 DEF NextClaim
<1> QED
  BY <1>4, <1>5, <1>6, <1>7 DEF Next

\* A claim's promise is at most what it takes, once its volume is seen.
LEMMA PromiseTaken ==
    ASSUME TypeOK, NEW c \in Claims, InStage(c), NEW n \in Nodes, NEW v \in VGs,
           Bound(c) => seenPV[c] # None
    PROVE  Promise(n, v, c) <= Taken(n, v, c)
<1>1. Size[c] \in Int /\ Taken(n, v, c) \in 0..MaxSize
  BY TakenType, SizeAssumption DEF Sizes
<1>2. Promise(n, v, c) = IF binding[c] = Unit(c, n, v) THEN Size[c] ELSE 0
  <2>1. ~(pv[c] # None /\ pv[c].phase = "bound" /\ seenPV[c] = None)
    BY StageOf
  <2> QED
    BY <2>1 DEF Promise
<1>3. CASE binding[c] = Unit(c, n, v)
  <2>1. CASE OnNode(c, n)
    <3>1. Backed(c, n, seenPV[c].where) /\ seenPV[c].size >= Size[c]
      BY <2>1, SeenVolume
    <3>2. binding[c] # None
      BY <1>3, UnitNotNone
    <3>3. seenPV[c].where = v
      BY <1>3, <3>1, <3>2, UnitFields DEF Backed
    <3>4. Taken(n, v, c) = seenPV[c].size /\ seenPV[c].size \in Int
      BY <1>1, <2>1, <3>3, MaxSizeAssumption DEF Taken
    <3> QED
      BY <1>1, <1>2, <1>3, <3>1, <3>4
  <2>2. CASE ~OnNode(c, n)
    BY <1>1, <1>2, <1>3, <2>2 DEF Taken
  <2> QED
    BY <2>1, <2>2
<1>4. CASE binding[c] # Unit(c, n, v)
  BY <1>1, <1>2, <1>4, MaxSizeAssumption
<1> QED
  BY <1>3, <1>4

\* Where no volume waits to be seen, the promises on a group of a node whose status was
\* seen are at most what is charged there.
LEMMA PromisesCharged ==
    ASSUME TypeOK, \A c \in Claims : InStage(c) /\ (Bound(c) => seenPV[c] # None),
           NEW n \in Nodes, NEW v \in VGs, LedgerInv(n), v \in cache[n].vgs
    PROVE  Total(Promises(n, v)) <= cache[n].req[v]
<1>1. /\ Promises(n, v) \in [Claims -> 0..MaxSize] /\ Total(Promises(n, v)) \in Nat
  BY RoomTypes
<1>2. /\ TakenOn(n, v) \in [Claims -> 0..MaxSize] /\ Total(TakenOn(n, v)) \in Nat
      /\ Total(InlineOn(n, v)) \in Nat
  BY TakenTotal
<1>3. \A c \in Claims : Promises(n, v)[c] <= TakenOn(n, v)[c]
  <2>1. \A c \in Claims : Promise(n, v, c) <= Taken(n, v, c)
    BY PromiseTaken
  <2> QED
    BY <2>1 DEF Promises, TakenOn
<1>4. Total(Promises(n, v)) <= Total(TakenOn(n, v))
  BY <1>1, <1>2, <1>3, TotalMonotone, StorageAssumption
<1>5. cache[n].req[v] = Total(TakenOn(n, v)) + Total(InlineOn(n, v))
  BY DEF LedgerInv
<1> QED
  BY <1>1, <1>2, <1>4, <1>5

\* The same of the state after a step.
LEMMA PromisesChargedNext ==
    ASSUME NEW n \in Nodes, NEW v \in VGs
    PROVE  /\ TypeOK' /\ LedgerInv(n)' /\ v \in cache'[n].vgs
           /\ \A c \in Claims : InStage(c)' /\ (Bound(c)' => seenPV'[c] # None)
           => Total(Promises(n, v)') <= cache'[n].req[v]
<1>1. /\ TypeOK /\ LedgerInv(n) /\ v \in cache[n].vgs
      /\ \A c \in Claims : InStage(c) /\ (Bound(c) => seenPV[c] # None)
      => Total(Promises(n, v)) <= cache[n].req[v]
  BY PromisesCharged
<1>2. (/\ TypeOK /\ LedgerInv(n) /\ v \in cache[n].vgs
       /\ \A c \in Claims : InStage(c) /\ (Bound(c) => seenPV[c] # None)
       => Total(Promises(n, v)) <= cache[n].req[v])'
  BY <1>1, PTL
<1> QED
  BY <1>2

\* Promises that do not grow still fit.
LEMMA PromisesKept ==
    ASSUME TypeOK, TypeOK', NEW n \in Nodes, NEW v \in VGs,
           Total(Promises(n, v)) <= nls[n].cap[v], nls[n].cap[v] <= nls'[n].cap[v],
           \A c \in Claims : Promise(n, v, c)' = Promise(n, v, c) \/ Promise(n, v, c)' = 0
    PROVE  Total(Promises(n, v)') <= nls'[n].cap[v]
<1> DEFINE f == Promises(n, v)
           g == Promises(n, v)'
<1>1. f \in [Claims -> 0..MaxSize]
  BY RoomTypes
<1>2. g \in [Claims -> 0..MaxSize]
  BY SizeAssumption, MaxSizeAssumption DEF Promises, Promise, Sizes
<1>3. \A c \in Claims : g[c] <= f[c]
  <2>1. \A c \in Claims : g[c] = f[c] \/ g[c] = 0
    BY DEF Promises
  <2> HIDE DEF f, g
  <2> QED
    BY <1>1, <1>2, <2>1, MaxSizeAssumption
<1>4. nls[n].cap[v] \in Int /\ nls'[n].cap[v] \in Int
  BY DEF TypeOK, Statuses
<1> HIDE DEF f, g
<1>5. Total(f) \in Nat /\ Total(g) \in Nat /\ Total(g) <= Total(f)
  BY <1>1, <1>2, <1>3, TotalType, TotalMonotone, StorageAssumption
<1>6. Total(f) <= nls[n].cap[v]
  BY DEF f
<1>7. Total(g) <= nls'[n].cap[v]
  BY <1>4, <1>5, <1>6
<1> QED
  BY <1>7 DEF g

\* A promise changes only with the unit of the claim or when its volume is seen.
LEMMA PromiseFrame ==
    ASSUME NEW n, NEW v, NEW c \in Claims, pv'[c] = pv[c], seenPV'[c] = seenPV[c],
           binding'[c] = binding[c]
    PROVE  Promise(n, v, c)' = Promise(n, v, c)
  BY DEF Promise

\* Every step keeps the promises on a volume group within its capacity.
LEMMA PromisesStep ==
    ASSUME Faults = {}, PlacesCounted, ExtenderInv, TypeOK', Next, NEW n \in Nodes, NEW v \in VGs,
           NodeInv(n)', \A d \in Claims : InStage(d)'
    PROVE  Total(Promises(n, v)') <= nls'[n].cap[v]
<1> USE DEF api, extender, seen
<1>0. /\ TypeOK /\ Room(n, v, 0) /\ NodeInv(n) /\ \A d \in Claims : InStage(d)
      /\ Total(Promises(n, v)) <= nls[n].cap[v]
  BY DEF ExtenderInv, RoomInv, Promises
<1>1. nls[n].cap[v] \in Int /\ nls[n].cap[v] <= nls[n].cap[v]
  BY <1>0 DEF TypeOK, Statuses
<1>2. ASSUME UNCHANGED nls,
             \A c \in Claims : Promise(n, v, c)' = Promise(n, v, c) \/ Promise(n, v, c)' = 0
      PROVE  Total(Promises(n, v)') <= nls'[n].cap[v]
  BY <1>0, <1>1, <1>2, PromisesKept
<1>3. CASE UNCHANGED <<pv, seenPV, binding, nls>>
  BY <1>2, <1>3, PromiseFrame
<1>4. CASE Restart
  <2> DEFINE f == Promises(n, v)'
             g == UsedSizes(n, v)
  <2>1. UNCHANGED <<pv, nls>>
    BY <1>4 DEF Restart
  <2>2. f \in [Claims -> 0..MaxSize]
    BY SizeAssumption, MaxSizeAssumption DEF Promises, Promise, Sizes
  <2>3. /\ g \in [Claims -> 0..MaxSize] /\ UsedOn(n, v) = Total(g) /\ UsedOn(n, v) \in Nat
        /\ Inline(n, v) \in Nat
    BY <1>0, RoomTypes
  <2>4. ASSUME NEW c \in Claims PROVE f[c] <= g[c]
    <3>1. binding'[c] # Unit(c, n, v)
      BY <1>4, OrderlyRestart, UnitNotNone
    <3>2. f[c] = Promise(n, v, c)' /\ g[c] = UsedSize(n, v, c)
      BY DEF Promises, UsedSizes
    <3>3. CASE pv[c] # None /\ pv[c].phase = "bound" /\ pv[c].node = n /\ pv[c].where = v
      <4>1. Bound(c)
        BY <1>0, <3>3, StageOf DEF Made
      <4>2. g[c] = pv[c].size /\ pv[c].size >= Size[c]
        BY <3>2, <3>3, <4>1 DEF UsedSize, Bound
      <4>3. f[c] = Size[c] \/ f[c] = 0
        BY <3>2 DEF Promise
      <4>4. Size[c] \in Int /\ pv[c].size \in Nat
        BY <1>0, <3>3, SizeAssumption, MaxSizeAssumption DEF TypeOK, Volumes, Sizes
      <4> HIDE DEF f, g
      <4> QED
        BY <4>2, <4>3, <4>4
    <3>4. CASE ~(pv[c] # None /\ pv[c].phase = "bound" /\ pv[c].node = n /\ pv[c].where = v)
      <4>1. f[c] = 0
        BY <2>1, <3>1, <3>2, <3>4 DEF Promise
      <4> HIDE DEF f, g
      <4> QED
        BY <2>3, <4>1, MaxSizeAssumption
    <3> QED
      BY <3>3, <3>4
  <2>5. UsedOn(n, v) + Inline(n, v) + 0 <= nls[n].cap[v]
    BY <1>0 DEF Room
  <2> HIDE DEF f, g
  <2>6. Total(f) <= Total(g) /\ Total(f) \in Nat
    BY <2>2, <2>3, <2>4, TotalMonotone, TotalType, StorageAssumption
  <2>7. Total(f) <= nls[n].cap[v]
    BY <1>1, <2>3, <2>5, <2>6
  <2> QED
    BY <2>1, <2>7 DEF f
<1>5. ASSUME NEW m \in Nodes, OnNodeLocalStorage(m) \/ ChangeNLS(m)
      PROVE  Total(Promises(n, v)') <= nls'[n].cap[v]
  <2>1. CASE OnNodeLocalStorage(m)
    BY <1>3, <2>1 DEF OnNodeLocalStorage
  <2>2. CASE ChangeNLS(m)
    <3>1. nls[n].cap[v] <= nls'[n].cap[v]
      BY <2>2, QuietNodeStep DEF SameNode
    <3>2. UNCHANGED <<pv, seenPV, binding>>
      BY <2>2 DEF ChangeNLS
    <3> QED
      BY <1>0, <3>1, <3>2, PromiseFrame, PromisesKept
  <2> QED
    BY <1>5, <2>1, <2>2
<1>6. ASSUME NEW p \in Pods, NextPod(p)
      PROVE  Total(Promises(n, v)') <= nls'[n].cap[v]
  BY <1>3, <1>6 DEF NextPod, CreatePod, OnPodAdd, OnPodUpdate, OnPodDelete, PodHandled, Schedule,
                    RunPod, DeletePod
<1>7. ASSUME NEW c \in Claims, NextClaim(c)
      PROVE  Total(Promises(n, v)') <= nls'[n].cap[v]
  <2>0. UNCHANGED nls
    BY <1>7 DEF NextClaim, OnPVAdd, OnPVUpdate, OnPVDelete, OnPvcUpdate, PVHandled,
                SchedulingPVC, SchedulingPVCAgain, CreateVolumeNamed, VolumeCreated,
                VolumeFailed, BindPV, ExpandPV, DeleteClaim, RemoveSelectedNode
  <2>1. ASSUME \A d \in Claims : d # c => /\ pv'[d] = pv[d] /\ seenPV'[d] = seenPV[d]
                                         /\ binding'[d] = binding[d],
               Promise(n, v, c)' = Promise(n, v, c) \/ Promise(n, v, c)' = 0
        PROVE  Total(Promises(n, v)') <= nls'[n].cap[v]
    BY <1>2, <2>0, <2>1, PromiseFrame
  <2>2. CASE VolumeCreated(c)
    <3>1. /\ \A d \in Claims : d # c => pv'[d] = pv[d] /\ seenPV'[d] = seenPV[d]
          /\ pv'[c].phase = "pending" /\ UNCHANGED binding
      BY <1>0, <2>2 DEF VolumeCreated, TypeOK
    <3>2. pv[c] = None
      BY <1>0, <2>2, StageOf DEF VolumeCreated, Waiting
    <3>3. Promise(n, v, c)' = Promise(n, v, c)
      BY <3>1, <3>2 DEF Promise
    <3> QED
      BY <2>1, <3>1, <3>3
  <2>3. CASE BindPV(c) \/ ExpandPV(c)
    <3>1. /\ \A d \in Claims : d # c => pv'[d] = pv[d]
          /\ UNCHANGED <<binding, seenPV>>
      BY <1>0, <2>3 DEF BindPV, ExpandPV, TypeOK
    <3>2. seenPV[c] # None
      BY <1>0, <2>3, StageOf DEF BindPV, ExpandPV, Made
    <3>3. Promise(n, v, c)' = Promise(n, v, c)
      BY <3>1, <3>2 DEF Promise
    <3> QED
      BY <2>1, <3>1, <3>3
  <2>4. CASE DeleteClaim(c)
    <3>1. /\ \A d \in Claims : d # c => pv'[d] = pv[d]
          /\ UNCHANGED <<binding, seenPV>> /\ pv'[c] = None
      BY <1>0, <2>4 DEF DeleteClaim, TypeOK
    <3>2. Promise(n, v, c)' = Promise(n, v, c) \/ Promise(n, v, c)' = 0
      BY <3>1 DEF Promise
    <3> QED
      BY <2>1, <3>1, <3>2
  <2>5. CASE OnPVAdd(c)
    <3>1. PICK m, w : m = pv[c].node /\ w = pv[c].where
      OBVIOUS
    <3>2. /\ Bound(c) /\ seenPV[c] = None /\ binding[c] = None
          /\ pv[c] \in Volumes /\ binding'[c] = Unit(c, m, w)
      BY <2>5, <3>1, AddEvent
    <3>3. /\ UNCHANGED pv /\ seenPV'[c] = pv[c]
          /\ \A d \in Claims : d # c => seenPV'[d] = seenPV[d] /\ binding'[d] = binding[d]
      BY <2>5, AddEvent DEF VolumeEvent
    <3>4. binding[c] # Unit(c, n, v)
      BY <3>2, UnitNotNone
    <3>5. binding'[c] = Unit(c, n, v) <=> m = n /\ w = v
      BY <3>2, UnitFields
    <3>6. Promise(n, v, c) = IF m = n /\ w = v THEN Size[c] ELSE 0
      BY <3>1, <3>2, <3>4 DEF Promise, Bound
    <3>7. Promise(n, v, c)' = IF m = n /\ w = v THEN Size[c] ELSE 0
      BY <3>2, <3>3, <3>5 DEF Promise, Bound
    <3> QED
      BY <2>1, <3>3, <3>6, <3>7
  <2>6. CASE OnPVUpdate(c)
    <3>1. seenPV[c] # None /\ UNCHANGED <<binding, pv>>
      BY <2>6 DEF OnPVUpdate, PVHandled
    <3>2. seenPV'[c] # None /\ \A d \in Claims : d # c => seenPV'[d] = seenPV[d]
      BY <1>0, <2>6 DEF OnPVUpdate, SeePV, TypeOK
    <3>3. Promise(n, v, c)' = Promise(n, v, c)
      BY <3>1, <3>2 DEF Promise
    <3> QED
      BY <2>1, <3>1, <3>2, <3>3
  <2>7. CASE OnPVDelete(c)
    <3>1. /\ pv[c] = None /\ UNCHANGED pv /\ binding'[c] = None
          /\ \A d \in Claims : d # c => seenPV'[d] = seenPV[d] /\ binding'[d] = binding[d]
      BY <2>7, DeleteEvent DEF VolumeEvent, Deleted
    <3>2. binding'[c] # Unit(c, n, v)
      BY <3>1, UnitNotNone
    <3>3. Promise(n, v, c)' = 0
      BY <3>1, <3>2 DEF Promise
    <3> QED
      BY <2>1, <3>1, <3>3
  <2>8. CASE SchedulingPVC(c)
    <3>n. PICK m, S : m = selected[c] /\ S = Unbound(pvcPod[c])
      OBVIOUS
    <3>1. PICK a : Request(c, m, S, a)
      BY <2>8, <3>n, RequestEffect
    <3>2. /\ UNCHANGED <<pv, seenPV, seenNLS, claim>> /\ seenNLS[n] # None
          /\ \A d \in Claims : pv[d] # None /\ pv[d].phase = "bound" => seenPV[d] # None
      BY <2>8 DEF SchedulingPVC, Synced
    <3>3. /\ m \in Nodes /\ S \subseteq Claims
          /\ \A d \in S : a[d] \in Fitting(d) /\ binding'[d] = Unit(d, m, a[d])
          /\ \A d \in Claims : d \notin S => binding'[d] = binding[d]
      BY <3>1 DEF Request
    <3>4. CASE m = n /\ \E d \in S : Kind[d] = "LVM" /\ a[d] = v
      <4>1. PICK e \in S : Kind[e] = "LVM" /\ a[e] = v
        BY <3>4
      <4>2. cache[n].req[v] + Charged(cache[n], a, S, v) <= cache[n].cap[v]
        BY <3>1, <3>4, <4>1 DEF Request
      <4>3. cache'[n] = After(cache[n], n, a, S)
        BY <1>0, <3>1, <3>4 DEF Request, TypeOK
      <4>4. cache'[n].req[v] = cache[n].req[v] + Charged(cache[n], a, S, v)
        BY <4>3 DEF After
      <4>5. cache[n].cap[v] <= nls[n].cap[v]
        BY <1>0, <3>2 DEF NodeInv, StatusInv
      <4>6. cache'[n].req[v] \in Int /\ cache[n].cap[v] \in Int
        BY <1>0 DEF TypeOK, NodeCaches
      <4>7. cache'[n].req[v] <= nls[n].cap[v]
        BY <1>1, <4>2, <4>4, <4>5, <4>6
      <4>8. v \in cache'[n].vgs
        BY <3>2 DEF NodeInv, StatusInv
      <4>9. \A d \in Claims : InStage(d)' /\ (Bound(d)' => seenPV'[d] # None)
        BY <3>2 DEF Bound
      <4>10. LedgerInv(n)'
        BY DEF NodeInv
      <4>11. Total(Promises(n, v)') <= cache'[n].req[v]
        BY <4>8, <4>9, <4>10, PromisesChargedNext
      <4>12. Promises(n, v)' \in [Claims -> 0..MaxSize]
        BY SizeAssumption, MaxSizeAssumption DEF Promises, Promise, Sizes
      <4>13. Total(Promises(n, v)') \in Nat
        BY <4>12, TotalType, StorageAssumption
      <4>14. Total(Promises(n, v)') <= nls[n].cap[v]
        BY <1>1, <4>6, <4>7, <4>11, <4>13
      <4> QED
        BY <2>0, <4>14
    <3>5. CASE ~(m = n /\ \E d \in S : Kind[d] = "LVM" /\ a[d] = v)
      <4>1. ASSUME NEW d \in Claims
            PROVE  Promise(n, v, d)' = Promise(n, v, d) \/ Promise(n, v, d)' = 0
        <5>1. CASE d \notin S
          BY <3>2, <3>3, <5>1, PromiseFrame
        <5>2. CASE d \in S
          <6>1. binding'[d] # Unit(d, n, v)
            <7>1. a[d] = v => Kind[d] = "LVM"
              BY <3>3, <5>2, StorageAssumption DEF Fitting
            <7> QED
              BY <3>3, <3>5, <5>2, <7>1, UnitFields
          <6> QED
            BY <3>2, <6>1 DEF Promise
        <5> QED
          BY <5>1, <5>2
      <4> QED
        BY <1>2, <2>0, <4>1
    <3> QED
      BY <3>4, <3>5
  <2>9. CASE OnPvcUpdate(c) \/ SchedulingPVCAgain(c) \/ CreateVolumeNamed(c)
    BY <1>3, <2>9 DEF OnPvcUpdate, SchedulingPVCAgain, CreateVolumeNamed
  <2>10. CASE VolumeFailed(c) \/ RemoveSelectedNode(c)
    BY <1>3, <2>10 DEF VolumeFailed, RemoveSelectedNode
  <2> QED
    BY <1>7, <2>2, <2>3, <2>4, <2>5, <2>6, <2>7, <2>8, <2>9, <2>10 DEF NextClaim
<1> QED
  BY <1>4, <1>5, <1>6, <1>7 DEF Next

----------------------------------------------------------------------------
(* The inductive invariant *)

\* The invariant holds at the start: there is nothing yet.
LEMMA InitInv == Init => ExtenderInv
<1> SUFFICES ASSUME Init PROVE ExtenderInv
  OBVIOUS
<1>1. TypeOK
  BY InitType
<1>2. \A c \in Claims : InStage(c)
  BY DEF Init, InStage, Absent
<1>3. PodInv /\ TogetherInv
  <2>1. PodInv
    BY DEF Init, PodInv
  <2>2. \A p \in batch : p \in Pods /\ Mounts(p) \subseteq Claims
    BY <1>1, BatchAssumption, MountsAreClaims DEF TypeOK
  <2>3. used = {} /\ \A c \in Claims : claim[c] # "pending"
    BY DEF Init
  <2>4. TogetherInv
    BY <2>2, <2>3 DEF TogetherInv
  <2> QED
    BY <2>1, <2>4
<1>4. \A c \in Claims : \A n \in Nodes : \A w \in VGs \cup Disks : binding[c] # Unit(c, n, w)
  BY UnitNotNone DEF Init
<1>5. ASSUME NEW n \in Nodes PROVE NodeInv(n)
  <2>1. /\ cache[n] = NewNodeCache /\ seenNLS[n] = None
        /\ \A c \in Claims : seenPV[c] = None /\ binding[c] = None
    BY DEF Init
  <2>2. \A c \in Claims : ~OnNode(c, n)
    BY <2>1 DEF OnNode
  <2>3. VolumesInv(n) /\ RecordsInv(n) /\ StatusInv(n) /\ InlineInv(n)
    BY <2>1, <2>2 DEF VolumesInv, RecordsInv, StatusInv, InlineInv, NewNodeCache
  <2>4. HeldInv(n) /\ LedgerInv(n)
    BY <1>4, <2>1 DEF HeldInv, LedgerInv, NewNodeCache
  <2> QED
    BY <2>3, <2>4 DEF NodeInv
<1>6. OwnInv
  BY DEF Init, OwnInv, Owns
<1>7. ASSUME NEW n \in Nodes, NEW v \in VGs
      PROVE  Room(n, v, 0) /\ Total([c \in Claims |-> Promise(n, v, c)]) <= nls[n].cap[v]
  <2>1. /\ UsedSizes(n, v) \in [Claims -> 0..MaxSize] /\ RunSizes(n, v) \in [Pods -> 0..MaxSize]
        /\ Promises(n, v) \in [Claims -> 0..MaxSize]
        /\ UsedOn(n, v) = Total(UsedSizes(n, v)) /\ Inline(n, v) = Total(RunSizes(n, v))
    BY <1>1, RoomTypes
  <2>2. \A c \in Claims : UsedSizes(n, v)[c] = 0
    BY DEF Init, UsedSizes, UsedSize
  <2>3. \A p \in Pods : RunSizes(n, v)[p] = 0
    BY DEF Init, RunSizes, RunSize
  <2>4. \A c \in Claims : Promises(n, v)[c] = 0
    BY <1>4 DEF Init, Promises, Promise
  <2>5. Total(UsedSizes(n, v)) = 0 /\ Total(RunSizes(n, v)) = 0 /\ Total(Promises(n, v)) = 0
    BY <2>1, <2>2, <2>3, <2>4, TotalZero
  <2>6. nls[n].cap[v] \in Nat
    BY <1>1 DEF TypeOK, Statuses
  <2> QED
    BY <2>1, <2>5, <2>6 DEF Room, Promises
<1> QED
  BY <1>1, <1>2, <1>3, <1>5, <1>6, <1>7 DEF ExtenderInv, RoomInv

\* Every step keeps the invariant.
LEMMA ExtenderInductive ==
    ASSUME Faults = {}, PlacesCounted, ExtenderInv, [Next]_vars
    PROVE  ExtenderInv'
<1>0. TypeOK /\ TypeOK'
  BY TypeInductive DEF ExtenderInv
<1>1. CASE Next
  <2>1. \A d \in Claims : InStage(d)'
    BY <1>1, StagesStep
  <2>2. PodInv' /\ TogetherInv' /\ OwnInv'
    BY <1>1, PodInvStep, TogetherStep, OwnStep
  <2>3. \A n \in Nodes : NodeInv(n)'
    BY <1>0, <1>1, NodesStep
  <2>4. \A n \in Nodes, v \in VGs : Room(n, v, 0)'
    BY <1>0, <1>1, RoomStep
  <2>5. \A n \in Nodes, v \in VGs : Total(Promises(n, v)') <= nls'[n].cap[v]
    BY <1>0, <1>1, <2>1, <2>3, PromisesStep
  <2>6. RoomInv'
    BY <2>4, <2>5 DEF RoomInv, Promises
  <2> QED
    BY <1>0, <2>1, <2>2, <2>3, <2>6 DEF ExtenderInv
<1>2. CASE UNCHANGED vars
  <2>0. UNCHANGED <<pod, podNode, claim, selected, pv, nls, answer, used, batch, cache, binding,
                    pvcPod, seenPod, seenPV, seenNLS>>
    BY <1>2 DEF vars, api, extender, seen
  <2>1. \A d \in Claims : InStage(d)'
    BY <2>0, StageFrame DEF ExtenderInv
  <2>2. PodInv'
    BY <2>0 DEF ExtenderInv, PodInv, Listed
  <2>3. TogetherInv'
    BY <2>0 DEF ExtenderInv, TogetherInv
  <2>4. OwnInv'
    <3>1. \A d, n, w : Owns(d, n, w)' <=> Owns(d, n, w)
      BY <2>0 DEF Owns
    <3> QED
      BY <3>1 DEF ExtenderInv, OwnInv
  <2>5. ASSUME NEW n \in Nodes PROVE NodeInv(n)'
    <3>1. NodeInv(n)
      BY DEF ExtenderInv
    <3>2. \A v \in VGs : nls[n].cap[v] <= nls[n].cap[v]
      BY <1>0 DEF TypeOK, Statuses
    <3>3. \A q \in Pods : cache[n].inline[q] # "none" =>
              podNode[q] = n /\ pod[q] \in {"running", "gone"} /\ q \in seenPod
      BY <3>1 DEF NodeInv, InlineInv
    <3>4. \A d \in Claims :
             pv[d] # None /\ pv[d].phase = "bound" /\ pv[d].node = n /\ seenPV[d] # None
                => cache[n].known
      BY <3>1 DEF NodeInv, StatusInv
    <3>5. SameNode(n)
      BY <2>0, <3>2, <3>3, <3>4 DEF SameNode, OnNode
    <3> QED
      BY <1>0, <3>1, <3>5, SameNodeStep
  <2>6. RoomInv'
    BY <2>0 DEF ExtenderInv, RoomInv, Room, UsedOn, Inline, Promise
  <2> QED
    BY <1>0, <2>1, <2>2, <2>3, <2>4, <2>5, <2>6 DEF ExtenderInv
<1> QED
  BY <1>1, <1>2

\* In an orderly environment every claim is in a stage of its life and every node cache mirrors the stages of the claims on its node, whatever the
\* order of events, answers, expansions, deletions and restarts.
THEOREM Orderly ==
    ASSUME Faults = {}, PlacesCounted
    PROVE  Spec => []ExtenderInv
<1>1. Init => ExtenderInv
  BY InitInv
<1>2. ExtenderInv /\ [Next]_vars => ExtenderInv'
  BY ExtenderInductive
<1> QED
  BY <1>1, <1>2, PTL DEF Spec

----------------------------------------------------------------------------
(* What the invariant says *)

\* What a claim is charged for is what it takes.
LEMMA TakesTaken ==
    ASSUME NEW n \in Nodes, NodeInv(n), NEW v \in VGs, NEW c \in Claims
    PROVE  Takes(n, v, c) = Taken(n, v, c)
<1>1. cache[n].localPVs[c] = IF OnNode(c, n) THEN seenPV[c] ELSE None
  BY DEF NodeInv, VolumesInv
<1>2. OnNode(c, n) => seenPV[c] # None
  BY DEF OnNode
<1>3. ~OnNode(c, n) /\ binding[c] = Unit(c, n, v) => cache[n].records[c] = binding[c]
  <2> SUFFICES ASSUME ~OnNode(c, n), binding[c] = Unit(c, n, v)
               PROVE  cache[n].records[c] = binding[c]
    OBVIOUS
  <2>1. binding[c] # None /\ binding[c].node = n
    BY UnitNotNone, UnitFields
  <2> QED
    BY <2>1 DEF NodeInv, RecordsInv
<1> QED
  BY <1>1, <1>2, <1>3 DEF Takes, Taken

\* LedgerExact for every instance with an orderly environment: Requested of each
\* volume group is what the volumes, the answers and the inline volumes on it add up
\* to, so AddLVM, UpdateLVM, RemoveLVM, UpdateNodeInfo and Assume never charge twice
\* and never lose a charge.  (Groups appear and change their capacity; none disappears.)
THEOREM LedgerIsExact ==
    ASSUME Faults = {}, PlacesCounted
    PROVE  Spec => []LedgerExact
<1>1. ExtenderInv => LedgerExact
  <2> SUFFICES ASSUME ExtenderInv, NEW n \in Nodes, NEW v \in cache[n].vgs
               PROVE  cache[n].req[v] = Owed(n, v)
    BY DEF LedgerExact
  <2>1. TypeOK /\ NodeInv(n)
    BY DEF ExtenderInv
  <2>2. v \in VGs
    BY <2>1 DEF TypeOK, NodeCaches
  <2>3. cache[n].req[v] = Total(TakenOn(n, v)) + Total(InlineOn(n, v))
    BY <2>1, <2>2 DEF NodeInv, LedgerInv
  <2>4. [c \in Claims |-> Takes(n, v, c)] = TakenOn(n, v)
    BY <2>1, <2>2, TakesTaken DEF TakenOn
  <2> QED
    BY <2>3, <2>4 DEF Owed, InlineOn
<1> QED
  BY <1>1, Orderly, PTL

\* PromisesFit for every instance with an orderly environment: what SchedulingPVC has
\* answered on a volume group never exceeds its capacity.
THEOREM PromisesAlwaysFit ==
    ASSUME Faults = {}, PlacesCounted
    PROVE  Spec => []PromisesFit
<1>1. ExtenderInv => PromisesFit
  <2> DEFINE F(n, v) == [c \in Claims |-> IF binding[c] = Unit(c, n, v) THEN Size[c] ELSE 0]
  <2> SUFFICES ASSUME ExtenderInv, NEW n \in Nodes, NEW v \in VGs
               PROVE  Total(F(n, v)) <= nls[n].cap[v]
    BY DEF PromisesFit
  <2> DEFINE f == F(n, v)
  <2>1. TypeOK /\ Total(Promises(n, v)) <= nls[n].cap[v]
    BY DEF ExtenderInv, RoomInv, Promises
  <2>2. Promises(n, v) \in [Claims -> 0..MaxSize] /\ Total(Promises(n, v)) \in Nat
    BY <2>1, RoomTypes
  <2>3. f \in [Claims -> 0..MaxSize]
    BY SizeAssumption, MaxSizeAssumption DEF Sizes
  <2>4. \A c \in Claims : f[c] <= Promises(n, v)[c]
    BY SizeAssumption, MaxSizeAssumption DEF Promises, Promise, Sizes
  <2>5. nls[n].cap[v] \in Int
    BY <2>1 DEF TypeOK, Statuses
  <2> HIDE DEF f
  <2>6. Total(f) \in Nat /\ Total(f) <= Total(Promises(n, v))
    BY <2>2, <2>3, <2>4, TotalType, TotalMonotone, StorageAssumption
  <2>7. Total(f) <= nls[n].cap[v]
    BY <2>1, <2>2, <2>5, <2>6
  <2> QED
    BY <2>7 DEF f
<1> QED
  BY <1>1, Orderly, PTL

\* The target of a claim is a place that fits it, and one that it owns if it asks.
LEMMA TargetOwned ==
    ASSUME TypeOK, NEW c \in Claims, InStage(c), Target(c) # None
    PROVE  \E n \in Nodes : \E w \in Fitting(c) :
              Target(c) = <<n, w>> /\ (Asks(c) => Owns(c, n, w))
<1>1. CASE pv[c] # None
  <2>1. pv[c].node \in Nodes
    BY <1>1 DEF TypeOK, Volumes
  <2>2. pv[c].where \in Fitting(c)
    BY <1>1, StageOf DEF Made, Bound
  <2>3. Target(c) = <<pv[c].node, pv[c].where>> /\ Owns(c, pv[c].node, pv[c].where)
    BY <1>1 DEF Target, Owns
  <2> QED
    BY <2>1, <2>2, <2>3
<1>2. CASE pv[c] = None
  <2>1. answer[c] # None
    BY <1>2 DEF Target
  <2>2. Waiting(c)
    BY <2>1, StageOf
  <2>3. PICK w \in Fitting(c) :
           /\ answer[c] = [target |-> selected[c], unit |-> Unit(c, selected[c], w)]
           /\ Backed(c, selected[c], w)
    BY <2>1, <2>2 DEF Waiting
  <2>4. answer[c].target = selected[c] /\ answer[c].unit = Unit(c, selected[c], w)
    BY <2>3
  <2>5. answer[c].unit.where = w
    BY <2>4, UnitFields
  <2>6. selected[c] \in Nodes
    BY <2>1, <2>4 DEF TypeOK, Answers
  <2>7. Target(c) = <<selected[c], w>>
    BY <1>2, <2>1, <2>4, <2>5 DEF Target
  <2>8. ASSUME Asks(c) PROVE Owns(c, selected[c], w)
    <3>1. binding[c] = Unit(c, selected[c], w) /\ binding[c] # None
      BY <2>3, <2>6, <2>8, UnitIsPlace DEF Backed
    <3> QED
      BY <3>1, PlaceOf
  <2> QED
    BY <2>6, <2>7, <2>8
<1> QED
  BY <1>1, <1>2

\* DiskExclusive for every instance with an orderly environment: no two claims get one
\* device or mount point, from the answer of SchedulingPVC to the event of the volume.
THEOREM DisksExclusive ==
    ASSUME Faults = {}, PlacesCounted
    PROVE  Spec => []DiskExclusive
<1>1. ExtenderInv => DiskExclusive
  <2> SUFFICES ASSUME ExtenderInv, NEW c \in Claims, NEW d \in Claims, c # d, Kind[c] # "LVM",
                      Target(c) # None, Target(c) = Target(d)
               PROVE  FALSE
    BY DEF DiskExclusive
  <2>1. TypeOK /\ InStage(c) /\ InStage(d)
    BY DEF ExtenderInv
  <2>2. PICK n \in Nodes, w \in Fitting(c) :
           Target(c) = <<n, w>> /\ (Asks(c) => Owns(c, n, w))
    BY <2>1, TargetOwned
  <2>3. PICK m \in Nodes, x \in Fitting(d) :
           Target(d) = <<m, x>> /\ (Asks(d) => Owns(d, m, x))
    BY <2>1, TargetOwned
  <2>4. m = n /\ x = w
    <3>1. <<n, w>> = <<m, x>>
      BY <2>2, <2>3, Zenon
    <3> QED
      BY ONLY <3>1
  <2>5. Kind[d] # "LVM"
    BY <2>2, <2>3, <2>4, StorageAssumption DEF Fitting
  <2>6. Owns(c, n, w) /\ Owns(d, n, w)
    BY <2>2, <2>3, <2>4, <2>5 DEF Asks
  <2> QED
    BY <2>5, <2>6 DEF ExtenderInv, OwnInv
<1> QED
  BY <1>1, Orderly, PTL

\* AnswerIsReserved for every instance with an orderly environment: CreateVolume never
\* acts on an answer of which the cache of its node has no record.
THEOREM AnswersReserved ==
    ASSUME Faults = {}, PlacesCounted
    PROVE  Spec => []AnswerIsReserved
<1>1. ExtenderInv => AnswerIsReserved
  <2> SUFFICES ASSUME ExtenderInv, NEW c \in Claims, answer[c] # None, Asks(c)
               PROVE  IsPVAllocated(cache[answer[c].target], c)
    BY DEF AnswerIsReserved
  <2>1. TypeOK /\ Waiting(c)
    BY StageOf DEF ExtenderInv
  <2>2. PICK w \in Fitting(c) :
           /\ answer[c] = [target |-> selected[c], unit |-> Unit(c, selected[c], w)]
           /\ Backed(c, selected[c], w)
    BY <2>1 DEF Waiting
  <2>3. answer[c].target = selected[c] /\ answer[c].unit = Unit(c, selected[c], w)
    BY <2>2
  <2>4. selected[c] \in Nodes
    BY <2>1, <2>3 DEF TypeOK, Answers
  <2>5. binding[c] = Unit(c, selected[c], w) /\ binding[c] # None
    BY <2>2, <2>4, UnitIsPlace DEF Backed
  <2>6. binding[c].node = selected[c]
    BY <2>5, UnitFields
  <2>7. ~OnNode(c, selected[c])
    BY <2>1 DEF Waiting, OnNode
  <2>8. cache[selected[c]].records[c] # None
    BY <2>4, <2>5, <2>6, <2>7 DEF ExtenderInv, NodeInv, RecordsInv
  <2> QED
    BY <2>3, <2>8 DEF IsPVAllocated
<1> QED
  BY <1>1, Orderly, PTL

\* NothingLeaks for every instance with an orderly environment: when all pods, claims
\* and volumes are gone and their events are handled, nothing is charged or held.
THEOREM NoLeaks ==
    ASSUME Faults = {}, PlacesCounted
    PROVE  Spec => []NothingLeaks
<1>1. ExtenderInv => NothingLeaks
  <2> SUFFICES ASSUME ExtenderInv, \A p \in Pods : pod[p] = "absent",
                      \A c \in Claims : claim[c] = "absent" /\ pv[c] = None /\ seenPV[c] = None,
                      NEW n \in Nodes
               PROVE  cache[n].held = {} /\ \A v \in VGs : cache[n].req[v] = 0
    BY DEF NothingLeaks
  <2>1. TypeOK /\ NodeInv(n)
    BY DEF ExtenderInv
  <2>2. \A c \in Claims : binding[c] = None /\ ~OnNode(c, n)
    BY DEF ExtenderInv, InStage, Absent, Waiting, Made, Bound, Deleted, OnNode
  <2>3. \A c \in Claims : \A w \in VGs \cup Disks : binding[c] # Unit(c, n, w)
    BY <2>2, UnitNotNone
  <2>4. cache[n].held = {}
    <3>1. cache[n].held \subseteq Disks
      BY <2>1 DEF TypeOK, NodeCaches
    <3> QED
      BY <2>1, <2>3, <3>1 DEF NodeInv, HeldInv
  <2>5. \A p \in Pods : cache[n].inline[p] = "none"
    BY <2>1 DEF NodeInv, InlineInv
  <2>6. ASSUME NEW v \in VGs PROVE cache[n].req[v] = 0
    <3>1. TakenOn(n, v) \in [Claims -> 0..MaxSize] /\ InlineOn(n, v) \in [Pods -> 0..MaxSize]
      BY <2>1, TakenTotal
    <3>2. \A c \in Claims : TakenOn(n, v)[c] = 0
      BY <2>2, <2>3 DEF TakenOn, Taken
    <3>3. \A p \in Pods : InlineOn(n, v)[p] = 0
      BY <2>5 DEF InlineOn
    <3>4. Total(TakenOn(n, v)) = 0 /\ Total(InlineOn(n, v)) = 0
      BY <3>1, <3>2, <3>3, TotalZero
    <3> QED
      BY <2>1, <3>4 DEF NodeInv, LedgerInv
  <2> QED
    BY <2>4, <2>6
<1> QED
  BY <1>1, Orderly, PTL

=============================================================================
