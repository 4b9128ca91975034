---------------------------- MODULE BuildersProofs ----------------------------
(***************************************************************************)
(* Proofs about the builders: what each of them makes of any accepted      *)
(* file.  The clusters and the routes are made in one step, so the         *)
(* invariant says what they are; the load assignments are made in a loop,  *)
(* and the invariant says how far it has come.                             *)
(***************************************************************************)
EXTENDS BuilderLemmas

-----------------------------------------------------------------------------
(* Clusters. *)

Numbers(status) == [k \in DOMAIN status |-> Status(status[k])]

(* The status strings of an entry denote natural numbers.                  *)
LEMMA NumbersAre ==
  ASSUME NEW e \in CDSConfig
  PROVE  /\ Len(e.status) \in Nat
         /\ Numbers(e.status) \in [1 .. Len(e.status) -> Nat]
         /\ Numbers(e.status) \in Seq(Nat) /\ Len(Numbers(e.status)) = Len(e.status)
         /\ Configured(e) = {Numbers(e.status)[k] : k \in 1 .. Len(e.status)}
<1>1. e.status \in Seq(Statuses)
  BY DEF CDSConfig
<1>2. DOMAIN e.status = 1 .. Len(e.status) /\ Len(e.status) \in Nat
  BY <1>1
<1>3. ASSUME NEW k \in 1 .. Len(e.status) PROVE Status(e.status[k]) \in Nat
  <2>1. e.status[k] \in Statuses
    BY <1>1
  <2> QED
    BY <2>1, ClusterAssumption DEF Status
<1>4. Numbers(e.status) \in [1 .. Len(e.status) -> Nat]
  BY <1>2, <1>3 DEF Numbers
<1>5. Numbers(e.status) \in Seq(Nat) /\ Len(Numbers(e.status)) = Len(e.status)
  BY <1>2, <1>4
<1>6. Configured(e) = {Numbers(e.status)[k] : k \in 1 .. Len(e.status)}
  BY <1>2 DEF Configured, ToSet, Numbers
<1> QED
  BY <1>2, <1>4, <1>5, <1>6

(* What a list of ranges is for Envoy when it is made of sorted numbers.   *)
Good(c) ==
  /\ c.statuses # <<>>
  /\ \A r \in ToSet(c.statuses) : r.start < r.end
  /\ \A j, k \in DOMAIN c.statuses : j <= k => c.statuses[j].start <= c.statuses[k].start

(* Ranges of numbers in order are good and accept just these numbers.      *)
LEMMA RangesAre ==
  ASSUME NEW N \in Nat \ {0}, NEW t \in [1 .. N -> Nat],
         \A j, k \in 1 .. N : j <= k => t[j] <= t[k],
         NEW c, c.statuses = Ranges(t)
  PROVE  Good(c) /\ Accepted(c) = {t[k] : k \in 1 .. N}
<1>1. /\ DOMAIN c.statuses = 1 .. N
      /\ \A k \in 1 .. N : c.statuses[k] = [start |-> t[k], end |-> t[k] + 1]
  BY DEF Ranges, Interval
<1>2. ToSet(c.statuses) = {[start |-> t[k], end |-> t[k] + 1] : k \in 1 .. N}
  BY <1>1 DEF ToSet
<1>3. Good(c)
  <2>1. c.statuses # <<>>
    <3>1. 1 \in DOMAIN c.statuses
      BY <1>1
    <3> QED
      BY <3>1
  <2>2. ASSUME NEW r \in ToSet(c.statuses) PROVE r.start < r.end
    <3>1. PICK k \in 1 .. N : r = [start |-> t[k], end |-> t[k] + 1]
      BY <1>2
    <3>2. r.start = t[k] /\ r.end = t[k] + 1 /\ t[k] \in Nat
      BY <3>1
    <3> QED
      BY <3>2
  <2>3. ASSUME NEW j \in 1 .. N, NEW k \in 1 .. N, j <= k
        PROVE  c.statuses[j].start <= c.statuses[k].start
    BY <1>1, <2>3
  <2> QED
    BY <1>1, <2>1, <2>2, <2>3 DEF Good
<1>4. \A k \in 1 .. N : t[k] .. ((t[k] + 1) - 1) = {t[k]}
  OBVIOUS
<1>5. Accepted(c) = {t[k] : k \in 1 .. N}
  <2>1. ASSUME NEW v \in Accepted(c) PROVE \E k \in 1 .. N : v = t[k]
    BY <1>2, <1>4 DEF Accepted
  <2>2. ASSUME NEW k \in 1 .. N PROVE t[k] \in Accepted(c)
    <3> DEFINE r == [start |-> t[k], end |-> t[k] + 1]
    <3>1. r \in ToSet(c.statuses)
      BY <1>2
    <3>2. t[k] \in r.start .. (r.end - 1)
      BY <1>4
    <3> HIDE DEF r
    <3> QED
      BY <3>1, <3>2 DEF Accepted
  <2> QED
    BY <2>1, <2>2
<1> QED
  BY <1>3, <1>5

(* AvoidSame keeps the order and every number, and changes numbers only if *)
(* all of them are the same.                                               *)
LEMMA AvoidSameIs ==
  ASSUME NEW N \in Nat, N > 1, NEW s \in [1 .. N -> Nat],
         \A j, k \in 1 .. N : j <= k => s[j] <= s[k]
  PROVE  /\ AvoidSame(s) \in [1 .. N -> Nat]
         /\ \A j, k \in 1 .. N : j <= k => AvoidSame(s)[j] <= AvoidSame(s)[k]
         /\ \A k \in 1 .. N : \E j \in 1 .. N : AvoidSame(s)[j] = s[k]
         /\ AvoidSame(s) = s \/ \A k \in 1 .. N : s[k] = s[1]
<1>1. Len(s) = N /\ Last(s) = s[N] /\ 1 \in 1 .. N /\ N \in 1 .. N
  <2>1. s \in Seq(Nat) /\ Len(s) = N
    OBVIOUS
  <2> QED
    BY <2>1 DEF Last
<1>2. CASE s[1] # s[N]
  <2>1. AvoidSame(s) = s
    BY <1>1, <1>2 DEF AvoidSame
  <2> QED
    BY <2>1
<1>3. CASE s[1] = s[N]
  <2>1. \A k \in 1 .. N : s[k] = s[1]
    <3> SUFFICES ASSUME NEW k \in 1 .. N PROVE s[k] = s[1]
      OBVIOUS
    <3>1. s[1] <= s[k] /\ s[k] <= s[N] /\ s[1] \in Nat /\ s[k] \in Nat
      BY <1>1
    <3> QED
      BY <3>1, <1>3
  <2> DEFINE t == AvoidSame(s)
  <2>2. t = [s EXCEPT ![N] = s[N] + 1]
    BY <1>1, <1>3 DEF AvoidSame
  <2>3. s[N] + 1 \in Nat
    BY <1>1
  <2>4. t \in [1 .. N -> Nat]
    BY <2>2, <2>3
  <2>5. t[N] = s[1] + 1 /\ \A k \in 1 .. N : k # N => t[k] = s[1]
    BY <2>1, <2>2, <1>1
  <2> HIDE DEF t
  <2>6. ASSUME NEW j \in 1 .. N, NEW k \in 1 .. N, j <= k PROVE t[j] <= t[k]
    <3>1. s[1] \in Nat
      BY <1>1
    <3>2. CASE k = N
      BY <3>1, <3>2, <2>5
    <3>3. CASE k # N
      <4>1. j # N
        BY <3>3, <2>6
      <4> QED
        BY <3>1, <3>3, <4>1, <2>5
    <3> QED
      BY <3>2, <3>3
  <2>7. \A k \in 1 .. N : t[1] = s[k]
    BY <2>1, <2>5, <1>1
  <2> QED
    BY <2>1, <2>4, <2>6, <2>7, <1>1 DEF t
<1> QED
  BY <1>2, <1>3

(* statusesInt64Range over all its cases.                                  *)
LEMMA ClusterIs ==
  ASSUME NEW e \in CDSConfig, NEW c, c.statuses = statusesInt64Range(e.status)
  PROVE  /\ Good(c)
         /\ Configured(e) \subseteq Accepted(c)
         /\ (Cardinality(Configured(e)) > 1 \/ Len(e.status) = 1) /\ Configured(e) # {200}
              => Accepted(c) = Configured(e)
<1> DEFINE N == Len(e.status)
           numbers == Numbers(e.status)
<1>1. /\ N \in Nat /\ numbers \in [1 .. N -> Nat] /\ numbers \in Seq(Nat) /\ Len(numbers) = N
      /\ Configured(e) = {numbers[k] : k \in 1 .. N}
  BY NumbersAre
<1>2. c.statuses = CASE numbers \in {<<>>, <<200>>} -> expectedHttpStatusOk
                     [] Len(numbers) = 1 /\ numbers # <<200>> -> Ranges(numbers)
                     [] Len(numbers) > 1 -> Ranges(AvoidSame(Sorted(numbers)))
  <2>1. numbers = [k \in DOMAIN e.status |-> Status(e.status[k])]
    BY DEF Numbers
  <2> QED
    BY <2>1 DEF statusesInt64Range
<1> HIDE DEF N, numbers
<1>3. CASE numbers \in {<<>>, <<200>>}
  <2>0. /\ ~ (Len(numbers) = 1 /\ numbers # <<200>>)
        /\ ~ (Len(numbers) > 1)
    <3>1. Len(<<>>) = 0 /\ Len(<<200>>) = 1
      OBVIOUS
    <3>2. CASE numbers = <<>>
      BY <3>1, <3>2
    <3>3. CASE numbers = <<200>>
      BY <3>1, <3>3
    <3> QED
      BY <3>2, <3>3, <1>3
  <2>1. c.statuses = <<[start |-> 200, end |-> 299]>>
    <3>1. c.statuses = expectedHttpStatusOk
      <4> HIDE DEF expectedHttpStatusOk
      <4> QED
        BY <1>2, <1>3, <2>0, Zenon
    <3> QED
      BY <3>1 DEF expectedHttpStatusOk, Interval
  <2>2. ToSet(c.statuses) = {[start |-> 200, end |-> 299]}
    BY <2>1 DEF ToSet
  <2>3. Good(c)
    BY <2>1, <2>2 DEF Good
  <2>4. Accepted(c) = 200 .. 298
    BY <2>2 DEF Accepted
  <2>5. CASE numbers = <<>>
    <3>1. N = 0 /\ Configured(e) = {}
      BY <2>5, <1>1
    <3>2. Cardinality({}) = 0
      BY FS_EmptySet
    <3> QED
      BY <3>1, <3>2, <2>3 DEF N
  <2>6. CASE numbers = <<200>>
    <3>1. Configured(e) = {200}
      BY <2>6, <1>1
    <3> QED
      BY <3>1, <2>3, <2>4
  <2> QED
    BY <1>3, <2>5, <2>6
<1>4. CASE N = 1 /\ numbers \notin {<<>>, <<200>>}
  <2>1. c.statuses = Ranges(numbers)
    BY <1>1, <1>2, <1>4
  <2>2. \A j, k \in 1 .. N : j <= k => numbers[j] <= numbers[k]
    BY <1>1, <1>4
  <2>3. Good(c) /\ Accepted(c) = {numbers[k] : k \in 1 .. N}
    BY <2>1, <2>2, <1>1, <1>4, RangesAre
  <2> QED
    BY <2>3, <1>1
<1>5. CASE N > 1
  <2> DEFINE s == Sorted(numbers)
             t == AvoidSame(s)
  <2>1. /\ s \in [1 .. N -> Nat]
        /\ \A j, k \in 1 .. N : j <= k => s[j] <= s[k]
        /\ \A k \in 1 .. N : \E j \in 1 .. N : s[k] = numbers[j]
        /\ \A j \in 1 .. N : \E k \in 1 .. N : s[k] = numbers[j]
    BY <1>1, SortedIs
  <2>0. c.statuses = Ranges(t)
    <3>1. numbers \notin {<<>>, <<200>>}
      BY <1>1, <1>5
    <3> QED
      BY <3>1, <1>1, <1>2, <1>5
  <2> HIDE DEF s
  <2>2. /\ t \in [1 .. N -> Nat]
        /\ \A j, k \in 1 .. N : j <= k => t[j] <= t[k]
        /\ \A k \in 1 .. N : \E j \in 1 .. N : t[j] = s[k]
        /\ t = s \/ \A k \in 1 .. N : s[k] = s[1]
    BY <2>1, <1>1, <1>5, AvoidSameIs
  <2> HIDE DEF t
  <2>3. Good(c) /\ Accepted(c) = {t[k] : k \in 1 .. N}
    <3>1. N \in Nat \ {0}
      BY <1>1, <1>5
    <3> QED
      BY <3>1, <2>0, <2>2, RangesAre
  <2>4. Configured(e) = {s[k] : k \in 1 .. N}
    <3>1. ASSUME NEW v \in Configured(e) PROVE v \in {s[k] : k \in 1 .. N}
      <4>1. PICK j \in 1 .. N : v = numbers[j]
        BY <1>1
      <4>2. PICK k \in 1 .. N : s[k] = numbers[j]
        BY <2>1
      <4> QED
        BY <4>1, <4>2
    <3>2. ASSUME NEW k \in 1 .. N PROVE s[k] \in Configured(e)
      <4>1. PICK j \in 1 .. N : s[k] = numbers[j]
        BY <2>1
      <4> QED
        BY <4>1, <1>1
    <3> QED
      BY <3>1, <3>2
  <2>5. Configured(e) \subseteq Accepted(c)
    BY <2>2, <2>3, <2>4
  <2>6. ASSUME Cardinality(Configured(e)) > 1 PROVE t = s
    <3> SUFFICES ASSUME \A k \in 1 .. N : s[k] = s[1] PROVE FALSE
      BY <2>2
    <3>1. Configured(e) = {s[1]}
      BY <2>4, <1>1, <1>5
    <3>2. Cardinality({s[1]}) = 1
      BY FS_Singleton
    <3> QED
      BY <3>1, <3>2, <2>6
  <2>7. N # 1
    BY <1>5, <1>1
  <2> QED
    BY <2>3, <2>4, <2>5, <2>6, <2>7 DEF N
<1>6. N = 0 => numbers = <<>>
  BY <1>1
<1>7. N = 0 \/ N = 1 \/ N > 1
  BY <1>1
<1> QED
  BY <1>3, <1>4, <1>5, <1>6, <1>7

-----------------------------------------------------------------------------
(* Load assignments. *)

LbEndpoint == [id : Nat, weight : Nat \ {0}]
Group == [locality : [region : Regions, zone : Zones] \cup {NoLocality},
          endpoints : Seq(LbEndpoint)]
Assignment == [name : {"example_xds_eds"} \X XdsNames, endpoints : Seq(Group)]

(* The groups have the given localities, one each, with the instances that *)
(* the list puts there.                                                    *)
PartOf(list, groups, localities) ==
  /\ {g.locality : g \in ToSet(groups)} = localities
  /\ IsInjective([j \in DOMAIN groups |-> groups[j].locality])
  /\ \A g \in ToSet(groups) : g.endpoints = lbEndpoints(At(list, g.locality))

LocalitiesOf(list) == {Locality(ins) : ins \in ToSet(list)}

(* What GroupsPartition asks of one entry and its groups. *)
Right(e, groups) ==
  IF e.policy = "normal"
  THEN Len(groups) = 1 /\ groups[1].endpoints = lbEndpoints(e.instances)
  ELSE PartOf(e.instances, groups, LocalitiesOf(e.instances))

(* The localities of the entry that the loops have been at already: not    *)
(* those of a region, or of a zone of this region, that is still to come.  *)
Behind ==
  {Locality(ins) : ins \in {x \in ToSet(Entry.instances) :
     x.region \notin regions /\ ~ (edsPc = "zone" /\ x.region = region /\ x.zone \in zones)}}

AssignedInv ==
  /\ assignments \in Seq(Assignment)
  /\ Len(assignments) <= Len(edsConfig)
  /\ \A k \in DOMAIN assignments :
       /\ assignments[k].name = Xds("example_xds_eds", edsConfig[k].name)
       /\ Right(edsConfig[k], assignments[k].endpoints)

LoopInv ==
  /\ edsPc \in {"entry", "region", "zone"}
  /\ endpoints \in Seq(Group)
  /\ edsPc = "entry" => endpoints = <<>>
  /\ edsPc # "entry" =>
       /\ Len(assignments) < Len(edsConfig)
       /\ Entry.policy # "normal"
       /\ byRegion = instancesByRegion(Entry.instances)
       /\ regions \subseteq DOMAIN byRegion
       /\ PartOf(Entry.instances, endpoints, Behind)
  /\ edsPc = "zone" =>
       /\ region \in DOMAIN byRegion \ regions
       /\ byZone = instancesByZone(byRegion[region])
       /\ zones \subseteq DOMAIN byZone

EInv == edsConfig \in Seq(EDSConfig) /\ AssignedInv /\ LoopInv

(* lbEndpoints keeps every instance.                                       *)
LEMMA LbEndpointsAre ==
  ASSUME NEW list \in Seq(EDSInstanceConfig)
  PROVE  /\ lbEndpoints(list) \in Seq(LbEndpoint)
         /\ lbEndpoints(list) = <<>> => list = <<>>
         /\ {x.id : x \in ToSet(lbEndpoints(list))} = {ins.id : ins \in ToSet(list)}
<1> DEFINE N == Len(list)
           l == lbEndpoints(list)
<1>1. N \in Nat /\ DOMAIN list = 1 .. N /\ \A k \in 1 .. N : list[k] \in EDSInstanceConfig
  OBVIOUS
<1>2. \A k \in 1 .. N : list[k].id \in Nat /\ list[k].weight \in Nat
  BY <1>1 DEF EDSInstanceConfig
<1>3. ASSUME NEW k \in 1 .. N
      PROVE  l[k] \in LbEndpoint /\ l[k].id = list[k].id
  <2>1. l[k] = [id |-> list[k].id, weight |-> IF list[k].weight < 1 THEN 1 ELSE list[k].weight]
    BY <1>1 DEF lbEndpoints
  <2>2. (IF list[k].weight < 1 THEN 1 ELSE list[k].weight) \in Nat \ {0}
    BY <1>2
  <2> HIDE DEF l
  <2> QED
    BY <2>1, <2>2, <1>2 DEF LbEndpoint
<1>4. DOMAIN l = 1 .. N /\ l = [k \in 1 .. N |-> l[k]]
  BY <1>1 DEF lbEndpoints
<1> HIDE DEF l
<1>5. l \in Seq(LbEndpoint) /\ Len(l) = N
  <2>1. l \in [1 .. N -> LbEndpoint]
    BY <1>3, <1>4
  <2> QED
    BY <2>1, <1>1
<1>6. l = <<>> => list = <<>>
  BY <1>1, <1>5
<1>7. {x.id : x \in ToSet(l)} = {ins.id : ins \in ToSet(list)}
  <2>1. \A k \in 1 .. N : l[k].id = list[k].id
    BY <1>3
  <2>2. ToSet(l) = {l[k] : k \in 1 .. N} /\ ToSet(list) = {list[k] : k \in 1 .. N}
    BY <1>1, <1>4 DEF ToSet
  <2> QED
    BY <2>1, <2>2
<1> QED
  BY <1>5, <1>6, <1>7 DEF l

(* The instances at a locality.                                            *)
LEMMA AtIs ==
  ASSUME NEW list \in Seq(EDSInstanceConfig), NEW l
  PROVE  /\ At(list, l) \in Seq(EDSInstanceConfig)
         /\ ToSet(At(list, l)) = {ins \in ToSet(list) : Locality(ins) = l}
<1> DEFINE S == {ins \in ToSet(list) : Locality(ins) = l}
<1>1. At(list, l) = Only(list, S)
  BY DEF At
<1>2. ToSet(list) \cap S = S
  OBVIOUS
<1> HIDE DEF S
<1>3. Only(list, S) \in Seq(EDSInstanceConfig) /\ ToSet(Only(list, S)) = ToSet(list) \cap S
  BY OnlyMembers
<1> QED
  BY <1>1, <1>2, <1>3 DEF S

LEMMA MembersAre ==
  ASSUME NEW T, NEW list \in Seq(T)
  PROVE  ToSet(list) \subseteq T
BY DEF ToSet

(* The keys of the two maps, and the list of a region and of a zone in it. *)
LEMMA RegionsAre ==
  ASSUME NEW list \in Seq(EDSInstanceConfig)
  PROVE  /\ DOMAIN instancesByRegion(list) = {x.region : x \in ToSet(list)}
         /\ \A r \in DOMAIN instancesByRegion(list) :
              instancesByRegion(list)[r] = Only(list, {x \in EDSInstanceConfig : x.region = r})
<1> DEFINE T == EDSInstanceConfig
<1>1. PICK key : key = "region"
  OBVIOUS
<1>2. /\ DOMAIN GroupBy(list, key) = Keys(list, key)
      /\ \A r \in Keys(list, key) : GroupBy(list, key)[r] = Only(list, Having(T, key, r))
  <2>1. list \in Seq(T)
    OBVIOUS
  <2> HIDE DEF T
  <2> QED
    BY <2>1, GroupByIs
<1>3. \A x : x[key] = x.region
  BY <1>1
<1>4. Keys(list, key) = {x.region : x \in ToSet(list)}
  BY <1>3 DEF Keys
<1>5. \A r : Having(T, key, r) = {x \in T : x.region = r}
  BY <1>3 DEF Having
<1>6. instancesByRegion(list) = GroupBy(list, key)
  BY <1>1 DEF instancesByRegion
<1> QED
  BY <1>2, <1>4, <1>5, <1>6

(* Grouped by region and then by zone, instances are those at a locality.  *)
LEMMA ZonesAre ==
  ASSUME NEW list \in Seq(EDSInstanceConfig), NEW r \in DOMAIN instancesByRegion(list)
  PROVE  LET m == instancesByZone(instancesByRegion(list)[r]) IN
         /\ DOMAIN m = {x.zone : x \in {y \in ToSet(list) : y.region = r}}
         /\ \A z \in DOMAIN m : m[z] = At(list, [region |-> r, zone |-> z])
<1> DEFINE T == EDSInstanceConfig
           InRegion == {x \in T : x.region = r}
           part == Only(list, InRegion)
           InZone(z) == {x \in T : x.zone = z}
<1>1. instancesByRegion(list)[r] = part
  BY RegionsAre
<1>2. part \in Seq(T) /\ ToSet(part) = ToSet(list) \cap InRegion
  <2> HIDE DEF T, InRegion
  <2> QED
    BY OnlyMembers DEF T
<1>3. ToSet(list) \subseteq T
  BY MembersAre
<1>4. ToSet(part) = {y \in ToSet(list) : y.region = r}
  BY <1>2, <1>3
<1>5. /\ DOMAIN instancesByZone(part) = {x.zone : x \in ToSet(part)}
      /\ \A z \in DOMAIN instancesByZone(part) : instancesByZone(part)[z] = Only(part, InZone(z))
  <2> HIDE DEF part, T
  <2>1. PICK key : key = "zone"
    OBVIOUS
  <2>2. /\ DOMAIN GroupBy(part, key) = Keys(part, key)
        /\ \A z \in Keys(part, key) : GroupBy(part, key)[z] = Only(part, Having(T, key, z))
    BY <1>2, GroupByIs
  <2>3. \A x : x[key] = x.zone
    BY <2>1
  <2>4. Keys(part, key) = {x.zone : x \in ToSet(part)}
    BY <2>3 DEF Keys
  <2>5. \A z : Having(T, key, z) = InZone(z)
    BY <2>3 DEF Having
  <2>6. instancesByZone(part) = GroupBy(part, key)
    BY <2>1 DEF instancesByZone
  <2> QED
    BY <2>2, <2>4, <2>5, <2>6
<1>6. ASSUME NEW z PROVE Only(part, InZone(z)) = At(list, [region |-> r, zone |-> z])
  <2> DEFINE l == [region |-> r, zone |-> z]
             S == {ins \in ToSet(list) : Locality(ins) = l}
             Z == InZone(z)
  <2>1. ToSet(list) \cap (InRegion \cap Z) = ToSet(list) \cap S
    <3>1. \A x \in ToSet(list) : Locality(x) = l <=> x.region = r /\ x.zone = z
      BY DEF Locality
    <3> QED
      BY <3>1, <1>3
  <2> HIDE DEF InRegion, Z, S, T
  <2>2. Only(part, Z) = Only(list, InRegion \cap Z)
    BY OnlyOnly DEF T
  <2>3. Only(list, InRegion \cap Z) = Only(list, S)
    BY <2>1, OnlySame DEF T
  <2>4. Only(list, S) = At(list, l)
    BY DEF At, S
  <2> QED
    BY <2>2, <2>3, <2>4 DEF Z
<1> HIDE DEF part
<1> QED
  BY <1>1, <1>4, <1>5, <1>6

(* One more group, of a locality that had none. *)
LEMMA PartAppend ==
  ASSUME NEW list, NEW groups \in Seq(Group), NEW localities, PartOf(list, groups, localities),
         NEW g \in Group, g.locality \notin localities,
         g.endpoints = lbEndpoints(At(list, g.locality))
  PROVE  PartOf(list, Append(groups, g), localities \cup {g.locality})
<1> DEFINE N == Len(groups)
           more == Append(groups, g)
<1>1. /\ more \in Seq(Group) /\ N \in Nat /\ Len(more) = N + 1 /\ more[N + 1] = g
      /\ \A n \in 1 .. N : more[n] = groups[n]
  BY AppendIs
<1>2. ToSet(more) = ToSet(groups) \cup {g}
  BY ToSetAppend
<1>3. DOMAIN groups = 1 .. N /\ DOMAIN more = 1 .. N + 1
  BY <1>1
<1> HIDE DEF more, N
<1>4. {x.locality : x \in ToSet(more)} = localities \cup {g.locality}
  BY <1>2 DEF PartOf
<1>5. ASSUME NEW j \in 1 .. N PROVE groups[j].locality \in localities
  <2>1. groups[j] \in ToSet(groups)
    BY <1>3 DEF ToSet
  <2> QED
    BY <2>1 DEF PartOf
<1>6. ASSUME NEW j \in 1 .. N + 1, NEW k \in 1 .. N + 1, more[j].locality = more[k].locality
      PROVE  j = k
  <2>1. CASE j \in 1 .. N /\ k \in 1 .. N
    <3>1. groups[j].locality = groups[k].locality
      BY <2>1, <1>1, <1>6
    <3> QED
      BY <3>1, <2>1, <1>3 DEF PartOf, IsInjective
  <2>2. CASE j = N + 1 /\ k \in 1 .. N
    BY <2>2, <1>1, <1>5, <1>6
  <2>3. CASE j \in 1 .. N /\ k = N + 1
    BY <2>3, <1>1, <1>5, <1>6
  <2>4. j \in 1 .. N \/ j = N + 1
    BY <1>1
  <2>5. k \in 1 .. N \/ k = N + 1
    BY <1>1
  <2> QED
    BY <2>1, <2>2, <2>3, <2>4, <2>5
<1>7. \A x \in ToSet(more) : x.endpoints = lbEndpoints(At(list, x.locality))
  BY <1>2 DEF PartOf
<1>8. IsInjective([j \in DOMAIN more |-> more[j].locality])
  BY <1>3, <1>6 DEF IsInjective
<1> QED
  BY <1>4, <1>7, <1>8 DEF PartOf, more

LEMMA PartEmpty == \A list : PartOf(list, <<>>, {})
<1>1. ToSet(<<>>) = {} /\ DOMAIN <<>> = {}
  BY ToSetEmpty
<1> QED
  BY <1>1 DEF PartOf, IsInjective

(* The endpoint builder starts with nothing assigned and no loop.          *)
LEMMA EInitInv == \A f \in Files : EdsInit(f.eds) => EInv
<1> SUFFICES ASSUME NEW f \in Files, EdsInit(f.eds) PROVE EInv
  OBVIOUS
<1>1. edsConfig \in Seq(EDSConfig)
  BY FilesAssumption DEF EdsInit
<1>2. AssignedInv
  <2>1. assignments = <<>>
    BY DEF EdsInit
  <2>2. /\ <<>> \in Seq(Assignment) /\ Len(<<>>) = 0 /\ DOMAIN <<>> = {}
        /\ Len(edsConfig) \in Nat
    BY <1>1
  <2> QED
    BY <2>1, <2>2 DEF AssignedInv
<1>3. LoopInv
  <2>1. edsPc = "entry" /\ endpoints = <<>>
    BY DEF EdsInit
  <2>2. <<>> \in Seq(Group)
    OBVIOUS
  <2> QED
    BY <2>1, <2>2 DEF LoopInv
<1> QED
  BY <1>1, <1>2, <1>3 DEF EInv

(* While entries are left there is one to work on.                         *)
LEMMA EntryIs ==
  ASSUME EInv, Len(assignments) < Len(edsConfig)
  PROVE  /\ Len(assignments) + 1 \in DOMAIN edsConfig
         /\ Entry \in EDSConfig
         /\ Entry.name \in Names /\ Entry.instances \in Seq(EDSInstanceConfig)
<1>1. edsConfig \in Seq(EDSConfig) /\ assignments \in Seq(Assignment)
  BY DEF EInv, AssignedInv
<1>2. Len(assignments) + 1 \in 1 .. Len(edsConfig) /\ DOMAIN edsConfig = 1 .. Len(edsConfig)
  BY <1>1
<1>3. Entry \in EDSConfig
  BY <1>1, <1>2 DEF Entry
<1> HIDE DEF Entry
<1> QED
  BY <1>2, <1>3 DEF EDSConfig

(* The assignment of the entry is appended. *)
LEMMA Assigns ==
  ASSUME EInv, Len(assignments) < Len(edsConfig), NEW groups \in Seq(Group), Right(Entry, groups),
         UNCHANGED edsConfig,
         assignments' = Append(assignments, clusterLoadAssignment(Entry.name, groups))
  PROVE  AssignedInv'
<1> DEFINE N == Len(assignments)
           new == clusterLoadAssignment(Entry.name, groups)
<1>1. edsConfig \in Seq(EDSConfig) /\ assignments \in Seq(Assignment)
  BY DEF EInv, AssignedInv
<1>2. new.name = Xds("example_xds_eds", Entry.name) /\ new.endpoints = groups
  BY DEF clusterLoadAssignment
<1>3. new \in Assignment
  <2>1. Entry.name \in Names
    BY EntryIs
  <2>2. xdsName[Entry.name] \in XdsNames
    BY <2>1, NamingAssumption
  <2> QED
    BY <2>2 DEF clusterLoadAssignment, Assignment, Xds
<1> HIDE DEF new
<1>4. /\ assignments' \in Seq(Assignment) /\ N \in Nat /\ Len(assignments') = N + 1
      /\ assignments'[N + 1] = new
      /\ \A n \in 1 .. N : assignments'[n] = assignments[n]
  BY <1>1, <1>3, AppendIs DEF new
<1>5. Len(assignments') <= Len(edsConfig)
  BY <1>1, <1>4
<1>6. ASSUME NEW k \in 1 .. N + 1
      PROVE  /\ assignments'[k].name = Xds("example_xds_eds", edsConfig[k].name)
             /\ Right(edsConfig[k], assignments'[k].endpoints)
  <2>1. CASE k = N + 1
    BY <2>1, <1>2, <1>4 DEF Entry
  <2>2. CASE k # N + 1
    <3>1. k \in DOMAIN assignments /\ assignments'[k] = assignments[k]
      BY <2>2, <1>1, <1>4
    <3> QED
      BY <3>1 DEF EInv, AssignedInv
  <2> QED
    BY <2>1, <2>2
<1>7. DOMAIN assignments' = 1 .. N + 1
  BY <1>4
<1> HIDE DEF N
<1>8. assignments' \in Seq(Assignment) /\ edsConfig' = edsConfig
  BY <1>4
<1> QED
  BY <1>5, <1>6, <1>7, <1>8 DEF AssignedInv

(* The groups of a new entry are the part behind no locality.              *)
LEMMA NextEntryInv == ASSUME EInv, NextEntry PROVE EInv'
<1>1. /\ edsConfig \in Seq(EDSConfig) /\ edsConfig' = edsConfig /\ AssignedInv
      /\ edsPc = "entry" /\ endpoints = <<>> /\ endpoints' = <<>>
  BY DEF EInv, NextEntry, LoopInv
<1>2. Len(assignments) < Len(edsConfig)
  <2>1. Len(assignments) \in Nat /\ Len(edsConfig) \in Nat
    BY <1>1 DEF AssignedInv
  <2> QED
    BY <2>1, <1>1 DEF NextEntry, EdsDone, AssignedInv
<1>3. Entry.instances \in Seq(EDSInstanceConfig)
  BY <1>2, EntryIs
<1>4. <<>> \in Seq(Group)
  OBVIOUS
<1>5. CASE /\ Entry.policy = "normal"
           /\ assignments' = Append(assignments, clusterLoadAssignment(Entry.name,
                <<[locality |-> NoLocality, endpoints |-> lbEndpoints(Entry.instances)]>>))
           /\ UNCHANGED <<edsPc, byRegion, regions>>
  <2> DEFINE g == [locality |-> NoLocality, endpoints |-> lbEndpoints(Entry.instances)]
  <2>1. g \in Group
    <3>1. lbEndpoints(Entry.instances) \in Seq(LbEndpoint)
      BY <1>3, LbEndpointsAre
    <3> QED
      BY <3>1 DEF Group
  <2>2. g.endpoints = lbEndpoints(Entry.instances)
    OBVIOUS
  <2> HIDE DEF g
  <2>3. <<g>> \in Seq(Group) /\ Len(<<g>>) = 1 /\ <<g>>[1] = g
    BY <2>1
  <2>4. Right(Entry, <<g>>)
    BY <2>2, <2>3, <1>5 DEF Right
  <2>5. assignments' = Append(assignments, clusterLoadAssignment(Entry.name, <<g>>))
    BY <1>5 DEF g
  <2>6. AssignedInv'
    BY <1>1, <1>2, <2>3, <2>4, <2>5, Assigns
  <2>7. LoopInv'
    BY <1>1, <1>4, <1>5 DEF LoopInv
  <2> QED
    BY <1>1, <2>6, <2>7 DEF EInv
<1>6. CASE /\ Entry.policy # "normal"
           /\ byRegion' = instancesByRegion(Entry.instances)
           /\ regions' = DOMAIN byRegion'
           /\ edsPc' = "region"
           /\ UNCHANGED assignments
  <2>1. Entry' = Entry
    BY <1>1, <1>6 DEF Entry
  <2>2. Behind' = {}
    <3>1. regions' = {x.region : x \in ToSet(Entry.instances)}
      BY <1>3, <1>6, RegionsAre
    <3>2. Behind' = {Locality(ins) : ins \in {x \in ToSet(Entry.instances) :
                       x.region \notin regions' /\ ~ (edsPc' = "zone" /\ x.region = region' /\ x.zone \in zones')}}
      BY <2>1 DEF Behind
    <3> QED
      BY <3>1, <3>2
  <2>3. PartOf(Entry.instances, <<>>, {})
    BY PartEmpty
  <2>4. PartOf(Entry.instances, endpoints, Behind)'
    BY <2>1, <2>2, <2>3, <1>1
  <2>5. LoopInv'
    BY <1>1, <1>2, <1>4, <1>6, <2>1, <2>4 DEF LoopInv
  <2>6. AssignedInv'
    BY <1>1, <1>6 DEF AssignedInv
  <2> QED
    BY <1>1, <2>5, <2>6 DEF EInv
<1> QED
  BY <1>5, <1>6 DEF NextEntry

(* The loops over the maps: edsPc is not "entry", and the entry stays.     *)
LEMMA LoopIs ==
  ASSUME EInv, edsPc # "entry"
  PROVE  /\ Len(assignments) < Len(edsConfig) /\ Entry.instances \in Seq(EDSInstanceConfig)
         /\ regions \subseteq {x.region : x \in ToSet(Entry.instances)}
         /\ byRegion = instancesByRegion(Entry.instances)
         /\ edsPc = "zone" => /\ region \in DOMAIN byRegion \ regions
                              /\ zones \subseteq {x.zone : x \in {y \in ToSet(Entry.instances) :
                                                                    y.region = region}}
<1>1. /\ Len(assignments) < Len(edsConfig) /\ byRegion = instancesByRegion(Entry.instances)
      /\ regions \subseteq DOMAIN byRegion
      /\ edsPc = "zone" => /\ region \in DOMAIN byRegion \ regions
                           /\ zones \subseteq DOMAIN instancesByZone(byRegion[region])
  BY DEF EInv, LoopInv
<1>2. Entry.instances \in Seq(EDSInstanceConfig)
  BY <1>1, EntryIs
<1>3. regions \subseteq {x.region : x \in ToSet(Entry.instances)}
  BY <1>1, <1>2, RegionsAre
<1>4. ASSUME edsPc = "zone"
      PROVE  zones \subseteq {x.zone : x \in {y \in ToSet(Entry.instances) : y.region = region}}
  <2>1. region \in DOMAIN instancesByRegion(Entry.instances)
    BY <1>1, <1>4
  <2>2. DOMAIN instancesByZone(byRegion[region])
          = {x.zone : x \in {y \in ToSet(Entry.instances) : y.region = region}}
    BY <1>1, <1>2, <2>1, ZonesAre
  <2> QED
    BY <1>1, <1>4, <2>2
<1> QED
  BY <1>1, <1>2, <1>3, <1>4

(* The localities that are behind after a step of the loops. *)
LEMMA BehindIs ==
  ASSUME UNCHANGED <<edsConfig, assignments>>
  PROVE  /\ Entry' = Entry
         /\ Behind' = {Locality(ins) : ins \in {x \in ToSet(Entry.instances) :
              x.region \notin regions' /\ ~ (edsPc' = "zone" /\ x.region = region' /\ x.zone \in zones')}}
<1>1. Entry' = Entry
  BY DEF Entry
<1> QED
  BY <1>1 DEF Behind

(* A region that is taken has all its zones ahead.                         *)
LEMMA NextRegionInv == ASSUME EInv, NextRegion PROVE EInv'
<1>1. PICK r \in regions :
        /\ region' = r /\ regions' = regions \ {r}
        /\ byZone' = instancesByZone(byRegion[r]) /\ zones' = DOMAIN byZone'
  BY DEF NextRegion
<1>2. /\ edsPc = "region" /\ edsPc' = "zone"
      /\ UNCHANGED <<edsConfig, byRegion, endpoints, assignments>>
  BY DEF NextRegion
<1>3. /\ Len(assignments) < Len(edsConfig) /\ Entry.instances \in Seq(EDSInstanceConfig)
      /\ byRegion = instancesByRegion(Entry.instances) /\ regions \subseteq DOMAIN byRegion
  BY <1>2, LoopIs DEF EInv, LoopInv
<1>4. Entry' = Entry
  BY <1>2, BehindIs
<1>5. Behind' = Behind
  <2>1. Behind = {Locality(ins) : ins \in {x \in ToSet(Entry.instances) : x.region \notin regions}}
    BY <1>2 DEF Behind
  <2>2. Behind' = {Locality(ins) : ins \in {x \in ToSet(Entry.instances) :
          x.region \notin regions' /\ ~ (edsPc' = "zone" /\ x.region = region' /\ x.zone \in zones')}}
    BY <1>2, BehindIs
  <2>3. zones' = {x.zone : x \in {y \in ToSet(Entry.instances) : y.region = r}}
    <3>1. r \in DOMAIN instancesByRegion(Entry.instances)
      BY <1>3
    <3> QED
      BY <3>1, <1>1, <1>3, ZonesAre
  <2>4. ASSUME NEW x \in ToSet(Entry.instances)
        PROVE  x.region \notin regions
                 <=> x.region \notin regions' /\ ~ (edsPc' = "zone" /\ x.region = region' /\ x.zone \in zones')
    BY <2>3, <1>1, <1>2
  <2> QED
    BY <2>1, <2>2, <2>4
<1>6. LoopInv'
  <2>1. /\ endpoints \in Seq(Group) /\ Entry.policy # "normal"
        /\ PartOf(Entry.instances, endpoints, Behind)
    BY <1>2 DEF EInv, LoopInv
  <2>2. PartOf(Entry.instances, endpoints, Behind)'
    BY <2>1, <1>2, <1>4, <1>5
  <2> QED
    BY <1>1, <1>2, <1>3, <1>4, <2>1, <2>2 DEF LoopInv
<1>7. edsConfig' \in Seq(EDSConfig) /\ AssignedInv'
  BY <1>2 DEF EInv, AssignedInv
<1> QED
  BY <1>6, <1>7 DEF EInv

(* With no region ahead the groups are a partition of the instances.       *)
LEMMA EndRegionsInv == ASSUME EInv, EndRegions PROVE EInv'
<1>1. /\ edsPc = "region" /\ regions = {} /\ edsPc' = "entry" /\ endpoints' = <<>>
      /\ assignments' = Append(assignments, clusterLoadAssignment(Entry.name, endpoints))
      /\ edsConfig' = edsConfig
  BY DEF EndRegions
<1>2. Len(assignments) < Len(edsConfig)
  BY <1>1, LoopIs
<1>3. /\ endpoints \in Seq(Group) /\ Entry.policy # "normal"
      /\ PartOf(Entry.instances, endpoints, Behind)
  BY <1>1 DEF EInv, LoopInv
<1>4. Behind = LocalitiesOf(Entry.instances)
  BY <1>1 DEF Behind, LocalitiesOf
<1>5. Right(Entry, endpoints)
  BY <1>3, <1>4 DEF Right
<1>6. AssignedInv'
  BY <1>1, <1>2, <1>3, <1>5, Assigns
<1>7. LoopInv'
  <2>1. <<>> \in Seq(Group)
    OBVIOUS
  <2> QED
    BY <1>1, <2>1 DEF LoopInv
<1> QED
  BY <1>1, <1>6, <1>7 DEF EInv

(* A zone that is taken moves its locality behind the loop.                *)
LEMMA NextZoneInv == ASSUME EInv, NextZone PROVE EInv'
<1>1. PICK z \in zones :
        /\ zones' = zones \ {z}
        /\ endpoints' = Append(endpoints, lbLocalityEndpoint(region, z, byZone[z]))
  BY DEF NextZone
<1>2. /\ edsPc = "zone"
      /\ UNCHANGED <<edsConfig, edsPc, byRegion, regions, region, byZone, assignments>>
  BY DEF NextZone
<1>3. /\ Len(assignments) < Len(edsConfig) /\ Entry.policy # "normal"
      /\ byRegion = instancesByRegion(Entry.instances) /\ regions \subseteq DOMAIN byRegion
      /\ endpoints \in Seq(Group) /\ PartOf(Entry.instances, endpoints, Behind)
      /\ region \in DOMAIN byRegion \ regions
      /\ byZone = instancesByZone(byRegion[region]) /\ zones \subseteq DOMAIN byZone
  BY <1>2 DEF EInv, LoopInv
<1> DEFINE l == [region |-> region, zone |-> z]
           list == Entry.instances
           g == lbLocalityEndpoint(region, z, byZone[z])
<1>4. list \in Seq(EDSInstanceConfig) /\ ToSet(list) \subseteq EDSInstanceConfig
  <2>1. list \in Seq(EDSInstanceConfig)
    BY <1>2, LoopIs
  <2> QED
    BY <2>1, MembersAre
<1>5. /\ byZone[z] = At(list, l)
      /\ \E x \in ToSet(list) : x.region = region /\ x.zone = z
  <2>1. region \in DOMAIN instancesByRegion(list) /\ z \in DOMAIN byZone
    BY <1>1, <1>3
  <2>2. /\ DOMAIN byZone = {x.zone : x \in {y \in ToSet(list) : y.region = region}}
        /\ \A v \in DOMAIN byZone : byZone[v] = At(list, [region |-> region, zone |-> v])
    <3> HIDE DEF list
    <3> QED
      BY <1>3, <1>4, <2>1, ZonesAre DEF list
  <2> QED
    BY <2>1, <2>2
<1>6. g.locality = l /\ g.endpoints = lbEndpoints(At(list, l))
  BY <1>5 DEF lbLocalityEndpoint
<1>7. g \in Group
  <2>1. At(list, l) \in Seq(EDSInstanceConfig)
    BY <1>4, AtIs
  <2>2. lbEndpoints(At(list, l)) \in Seq(LbEndpoint)
    BY <2>1, LbEndpointsAre
  <2>3. region \in Regions /\ z \in Zones
    BY <1>4, <1>5 DEF EDSInstanceConfig
  <2> QED
    BY <1>5, <2>2, <2>3 DEF lbLocalityEndpoint, Group
<1> HIDE DEF g
<1>8. l \notin Behind
  <2> SUFFICES ASSUME NEW x \in ToSet(list), Locality(x) = l,
                      ~ (edsPc = "zone" /\ x.region = region /\ x.zone \in zones)
               PROVE  FALSE
    BY DEF Behind
  <2>1. x.region = region /\ x.zone = z
    BY DEF Locality
  <2> QED
    BY <2>1, <1>1, <1>2
<1>9. Entry' = Entry
  BY <1>2, BehindIs
<1>10. Behind' = Behind \cup {l}
  <2>1. Behind = {Locality(ins) : ins \in {x \in ToSet(list) :
          x.region \notin regions /\ ~ (x.region = region /\ x.zone \in zones)}}
    BY <1>2 DEF Behind
  <2>2. Behind' = {Locality(ins) : ins \in {x \in ToSet(list) :
          x.region \notin regions' /\ ~ (edsPc' = "zone" /\ x.region = region' /\ x.zone \in zones')}}
    BY <1>2, BehindIs
  <2>3. Behind' = {Locality(ins) : ins \in {x \in ToSet(list) :
          x.region \notin regions /\ ~ (x.region = region /\ x.zone \in zones \ {z})}}
    BY <2>2, <1>1, <1>2
  <2> DEFINE A == {x \in ToSet(list) : x.region \notin regions /\ ~ (x.region = region /\ x.zone \in zones)}
             B == {x \in ToSet(list) : x.region \notin regions /\ ~ (x.region = region /\ x.zone \in zones \ {z})}
  <2>4. \A x \in B : x \in A \/ Locality(x) = l
    BY <1>2 DEF Locality
  <2>5. A \subseteq B
    OBVIOUS
  <2>6. PICK x \in ToSet(list) : x.region = region /\ x.zone = z
    BY <1>5
  <2>7. x \in B /\ Locality(x) = l
    BY <2>6, <1>3 DEF Locality
  <2> HIDE DEF A, B
  <2> QED
    BY <2>1, <2>3, <2>4, <2>5, <2>7 DEF A, B
<1>11. PartOf(list, endpoints', Behind')
  <2>1. PartOf(list, Append(endpoints, g), Behind \cup {g.locality})
    <3> HIDE DEF list, l
    <3> QED
      BY <1>3, <1>6, <1>7, <1>8, PartAppend DEF list
  <2> QED
    BY <2>1, <1>1, <1>6, <1>10 DEF g
<1>12. endpoints' \in Seq(Group)
  BY <1>1, <1>3, <1>7, AppendIs DEF g
<1>13. LoopInv'
  <2>1. PartOf(Entry.instances, endpoints, Behind)'
    BY <1>9, <1>11
  <2> QED
    BY <1>1, <1>2, <1>3, <1>9, <1>12, <2>1 DEF LoopInv
<1>14. edsConfig' \in Seq(EDSConfig) /\ AssignedInv'
  BY <1>2 DEF EInv, AssignedInv
<1> QED
  BY <1>13, <1>14 DEF EInv

(* With no zone ahead the whole region is behind.                          *)
LEMMA EndZonesInv == ASSUME EInv, EndZones PROVE EInv'
<1>1. /\ edsPc = "zone" /\ zones = {} /\ edsPc' = "region"
      /\ UNCHANGED <<edsConfig, byRegion, regions, region, byZone, zones, endpoints, assignments>>
  BY DEF EndZones
<1>2. Entry' = Entry
  BY <1>1, BehindIs
<1>3. Behind' = Behind
  <2>1. Behind' = {Locality(ins) : ins \in {x \in ToSet(Entry.instances) :
          x.region \notin regions' /\ ~ (edsPc' = "zone" /\ x.region = region' /\ x.zone \in zones')}}
    BY <1>1, BehindIs
  <2> QED
    BY <1>1, <2>1 DEF Behind
<1>4. LoopInv'
  <2>1. PartOf(Entry.instances, endpoints, Behind)
    BY <1>1 DEF EInv, LoopInv
  <2>2. PartOf(Entry.instances, endpoints, Behind)'
    BY <1>1, <1>2, <1>3, <2>1
  <2> QED
    BY <1>1, <1>2, <2>2 DEF EInv, LoopInv
<1>5. edsConfig' \in Seq(EDSConfig) /\ AssignedInv'
  BY <1>1 DEF EInv, AssignedInv
<1> QED
  BY <1>4, <1>5 DEF EInv

LEMMA EdsCreateInv == ASSUME EInv, edsCreate PROVE EInv'
BY NextEntryInv, NextRegionInv, EndRegionsInv, NextZoneInv, EndZonesInv DEF edsCreate

LEMMA EdsUnchanged == ASSUME EInv, UNCHANGED edsVars PROVE EInv'
<1>1. Entry' = Entry
  BY DEF edsVars, Entry
<1>2. Behind' = Behind
  BY <1>1 DEF edsVars, Behind
<1>3. AssignedInv'
  BY DEF EInv, AssignedInv, edsVars
<1>4. LoopInv'
  BY <1>1, <1>2 DEF EInv, LoopInv, edsVars
<1> QED
  BY <1>3, <1>4 DEF EInv, edsVars

-----------------------------------------------------------------------------
(* The invariant of Builders. *)

BuiltClusters == [k \in DOMAIN cdsConfig |-> clusterConfig(cdsConfig[k])]

(* What is built of each file, by how far the reload has come. *)
BuiltInv ==
  /\ clusters = IF pc \in {"load", "error", "cds"} THEN <<>> ELSE BuiltClusters
  /\ routeConfig = IF pc \in {"lds", "done"} THEN routeConfiguration(rdsConfig) ELSE <<>>
  /\ pc \in {"rds", "lds", "done"} => Len(assignments) = Len(edsConfig)
  /\ pc = "done" => listener.manager.routeConfigName = routeSpecifier

BuildersInv ==
  cdsConfig \in Seq(CDSConfig) /\ rdsConfig \in Seq(RDSConfig) /\ EInv /\ BuiltInv

LEMMA BuildersInit == Init => BuildersInv
<1> SUFFICES ASSUME Init PROVE BuildersInv
  OBVIOUS
<1>1. PICK f \in Files : CdsInit(f.cds) /\ EdsInit(f.eds) /\ RdsInit(f.rds) /\ LdsInit(f.lds)
  BY DEF Init
<1>2. cdsConfig \in Seq(CDSConfig) /\ rdsConfig \in Seq(RDSConfig)
  BY <1>1, FilesAssumption DEF CdsInit, RdsInit
<1>3. EInv
  BY <1>1, EInitInv
<1>4. BuiltInv
  BY <1>1 DEF Init, CdsInit, RdsInit, BuiltInv
<1> QED
  BY <1>2, <1>3, <1>4 DEF BuildersInv

LEMMA BuildersNext == ASSUME BuildersInv, [Next]_vars PROVE BuildersInv'
<1>1. CASE Load
  <2>1. EInv'
    BY <1>1, EdsUnchanged DEF BuildersInv, Load
  <2>2. BuiltInv'
    BY <1>1 DEF BuildersInv, BuiltInv, Load, cdsVars, edsVars, rdsVars, ldsVars
  <2> QED
    BY <1>1, <2>1, <2>2 DEF BuildersInv, Load, cdsVars, rdsVars
<1>2. CASE updateCds
  <2>1. EInv'
    BY <1>2, EdsUnchanged DEF BuildersInv, updateCds
  <2>2. cdsConfig' = cdsConfig /\ BuiltClusters' = BuiltClusters /\ clusters' = BuiltClusters
    BY <1>2 DEF updateCds, cdsCreate, BuiltClusters
  <2>3. BuiltInv'
    BY <1>2, <2>2 DEF BuildersInv, BuiltInv, updateCds, edsVars, rdsVars, ldsVars
  <2> QED
    BY <1>2, <2>1, <2>2, <2>3 DEF BuildersInv, updateCds, rdsVars
<1>3. CASE updateEds
  <2>0. pc = "eds" /\ UNCHANGED <<cdsVars, rdsVars, ldsVars>>
    BY <1>3 DEF updateEds
  <2>1. BuiltClusters' = BuiltClusters /\ UNCHANGED <<cdsConfig, clusters, rdsConfig, routeConfig>>
    BY <2>0 DEF BuiltClusters, cdsVars, rdsVars
  <2>2. CASE edsCreate /\ UNCHANGED pc
    <3>1. EInv'
      BY <2>2, EdsCreateInv DEF BuildersInv
    <3>2. BuiltInv'
      BY <2>0, <2>1, <2>2 DEF BuildersInv, BuiltInv
    <3> QED
      BY <2>1, <3>1, <3>2 DEF BuildersInv
  <2>3. CASE EdsDone /\ pc' = "rds" /\ UNCHANGED edsVars
    <3>1. EInv'
      BY <2>3, EdsUnchanged DEF BuildersInv
    <3>2. BuiltInv'
      BY <2>0, <2>1, <2>3 DEF BuildersInv, BuiltInv, EdsDone, edsVars
    <3> QED
      BY <2>1, <3>1, <3>2 DEF BuildersInv
  <2> QED
    BY <1>3, <2>2, <2>3 DEF updateEds
<1>4. CASE updateRds
  <2>1. EInv'
    BY <1>4, EdsUnchanged DEF BuildersInv, updateRds
  <2>2. BuiltClusters' = BuiltClusters /\ cdsConfig' = cdsConfig
    BY <1>4 DEF updateRds, BuiltClusters, cdsVars
  <2>3. rdsConfig' = rdsConfig /\ routeConfig' = routeConfiguration(rdsConfig)
    BY <1>4 DEF updateRds, rdsCreate
  <2>4. BuiltInv'
    BY <1>4, <2>2, <2>3 DEF BuildersInv, BuiltInv, updateRds, cdsVars, edsVars
  <2> QED
    BY <2>1, <2>2, <2>3, <2>4 DEF BuildersInv
<1>5. CASE updateLds
  <2>1. EInv'
    BY <1>5, EdsUnchanged DEF BuildersInv, updateLds
  <2>2. /\ BuiltClusters' = BuiltClusters
        /\ UNCHANGED <<cdsConfig, clusters, rdsConfig, routeConfig, assignments, edsConfig>>
    BY <1>5 DEF updateLds, BuiltClusters, cdsVars, rdsVars, edsVars
  <2>3. listener'.manager.routeConfigName = routeSpecifier
    BY <1>5 DEF updateLds, ldsCreate, httpConnectionManager
  <2>4. BuiltInv'
    BY <1>5, <2>2, <2>3 DEF BuildersInv, BuiltInv, updateLds
  <2> QED
    BY <2>1, <2>2, <2>4 DEF BuildersInv
<1>6. CASE UNCHANGED vars
  <2>1. EInv'
    BY <1>6, EdsUnchanged DEF BuildersInv, vars
  <2>2. BuiltInv'
    BY <1>6 DEF BuildersInv, BuiltInv, BuiltClusters, vars, cdsVars, edsVars, rdsVars, ldsVars
  <2> QED
    BY <1>6, <2>1, <2>2 DEF BuildersInv, vars, cdsVars, rdsVars
<1> QED
  BY <1>1, <1>2, <1>3, <1>4, <1>5, <1>6 DEF Next

(* Whatever the files are, the clusters, the routes and the load           *)
(* assignments are those of the entries that have been through the loop.   *)
THEOREM BuildersInvariance == Spec => []BuildersInv
<1>1. Init => BuildersInv
  BY BuildersInit
<1>2. BuildersInv /\ [Next]_vars => BuildersInv'
  BY BuildersNext
<1> QED
  BY <1>1, <1>2, PTL DEF Spec

-----------------------------------------------------------------------------
(* What follows from the invariant. *)

LEMMA EachClusterIs ==
  ASSUME BuildersInv, NEW k \in DOMAIN clusters
  PROVE  LET e == cdsConfig[k] c == clusters[k] IN
         /\ Good(c)
         /\ Configured(e) \subseteq Accepted(c)
         /\ (Cardinality(Configured(e)) > 1 \/ Len(e.status) = 1) /\ Configured(e) # {200}
              => Accepted(c) = Configured(e)
<1>1. k \in DOMAIN cdsConfig /\ clusters[k] = clusterConfig(cdsConfig[k])
  BY DEF BuildersInv, BuiltInv, BuiltClusters
<1>2. cdsConfig[k] \in CDSConfig
  BY <1>1 DEF BuildersInv
<1>3. clusters[k].statuses = statusesInt64Range(cdsConfig[k].status)
  BY <1>1 DEF clusterConfig
<1> QED
  BY <1>2, <1>3, ClusterIs

(* For every accepted cds.yaml and every way to spell numbers, no cluster  *)
(* has an empty range or ranges out of order (statusesInt64Range).         *)
THEOREM ClustersValid == Spec => []ClusterValid
<1>1. BuildersInv => ClusterValid
  BY EachClusterIs DEF ClusterValid, EachCluster, Good
<1> QED
  BY <1>1, BuildersInvariance, PTL

(* And a host that answers with a configured status stays in.              *)
THEOREM ClustersAccept == Spec => []ConfiguredAccepted
<1>1. BuildersInv => ConfiguredAccepted
  BY EachClusterIs DEF ConfiguredAccepted, EachCluster
<1> QED
  BY <1>1, BuildersInvariance, PTL

(* And no other status passes: the sorted list has the same first and last *)
(* number only if all of them are the same.                                *)
THEOREM ClustersReject == Spec => []OthersRejected
<1>1. BuildersInv => OthersRejected
  BY EachClusterIs DEF OthersRejected, EachCluster
<1> QED
  BY <1>1, BuildersInvariance, PTL

(* For every eds.yaml and every order in which the two maps are walked,    *)
(* the groups of an entry are its instances by locality, in file order.    *)
THEOREM GroupsArePartition == Spec => []GroupsPartition
<1>1. BuildersInv => GroupsPartition
  BY DEF BuildersInv, EInv, AssignedInv, Right, PartOf, LocalitiesOf, GroupsPartition
<1> QED
  BY <1>1, BuildersInvariance, PTL

(* And Envoy takes each of them: no empty group, no weight below 1.        *)
THEOREM EndpointsAreValid == Spec => []EndpointsValid
<1>1. BuildersInv => EndpointsValid
  <2> SUFFICES ASSUME BuildersInv, NEW k \in DOMAIN assignments,
                      NEW g \in ToSet(assignments[k].endpoints)
               PROVE  /\ g.endpoints = <<>> => edsConfig[k].instances = <<>>
                      /\ \A e \in ToSet(g.endpoints) : e.weight >= 1
    BY DEF EndpointsValid
  <2> DEFINE e == edsConfig[k]
             groups == assignments[k].endpoints
  <2>1. /\ edsConfig \in Seq(EDSConfig) /\ assignments \in Seq(Assignment)
        /\ Len(assignments) <= Len(edsConfig) /\ Right(e, groups)
    BY DEF BuildersInv, EInv, AssignedInv
  <2>2. e.instances \in Seq(EDSInstanceConfig) /\ groups \in Seq(Group)
    <3>1. e \in EDSConfig /\ assignments[k] \in Assignment
      BY <2>1
    <3> HIDE DEF e
    <3> QED
      BY <3>1 DEF EDSConfig, Assignment
  <2> HIDE DEF e, groups
  <2>3. g \in Group
    BY <2>2, MembersAre DEF groups
  <2>4. \A x \in ToSet(g.endpoints) : x.weight >= 1
    <3>1. g.endpoints \in Seq(LbEndpoint)
      BY <2>3 DEF Group
    <3>2. ToSet(g.endpoints) \subseteq LbEndpoint
      BY <3>1, MembersAre
    <3> QED
      BY <3>2 DEF LbEndpoint
  <2>5. ASSUME g.endpoints = <<>> PROVE e.instances = <<>>
    <3>1. CASE e.policy = "normal"
      <4>1. g = groups[1]
        BY <2>1, <2>2, <3>1 DEF Right, ToSet, groups
      <4>2. g.endpoints = lbEndpoints(e.instances)
        BY <4>1, <2>1, <3>1 DEF Right
      <4> QED
        BY <4>2, <2>2, <2>5, LbEndpointsAre
    <3>2. CASE e.policy # "normal"
      <4>1. PartOf(e.instances, groups, LocalitiesOf(e.instances))
        BY <2>1, <3>2 DEF Right
      <4>2. /\ g.locality \in LocalitiesOf(e.instances)
            /\ g.endpoints = lbEndpoints(At(e.instances, g.locality))
        BY <4>1 DEF PartOf, groups
      <4>3. PICK x \in ToSet(e.instances) : Locality(x) = g.locality
        BY <4>2 DEF LocalitiesOf
      <4>4. /\ At(e.instances, g.locality) \in Seq(EDSInstanceConfig)
            /\ x \in ToSet(At(e.instances, g.locality))
        BY <2>2, <4>3, AtIs
      <4>5. At(e.instances, g.locality) = <<>>
        BY <4>2, <4>4, <2>5, LbEndpointsAre
      <4> QED
        BY <4>4, <4>5, ToSetEmpty
    <3> QED
      BY <3>1, <3>2
  <2> QED
    BY <2>4, <2>5 DEF e
<1> QED
  BY <1>1, BuildersInvariance, PTL

-----------------------------------------------------------------------------
(* Weights. *)

LEMMA RuleIs ==
  ASSUME BuildersInv, NEW k \in DOMAIN rdsConfig, NEW n \in DOMAIN rdsConfig[k].cluster
  PROVE  LET c == rdsConfig[k].cluster[n] IN
         /\ c.target \in Seq([name : Names, weight : 0 .. (Word - 1)])
         /\ Len(c.target) \in Nat /\ DOMAIN c.target = 1 .. Len(c.target)
         /\ \A j \in 1 .. Len(c.target) : c.target[j].name \in Names /\ c.target[j].weight \in Nat
<1> DEFINE c == rdsConfig[k].cluster[n]
<1>1. rdsConfig[k] \in RDSConfig
  BY DEF BuildersInv
<1>2. rdsConfig[k].cluster \in Seq(RDSClusterConfig)
  BY <1>1 DEF RDSConfig
<1>3. c \in RDSClusterConfig
  BY <1>2
<1> HIDE DEF c
<1>4. c.target \in Seq([name : Names, weight : 0 .. (Word - 1)])
  BY <1>3 DEF RDSClusterConfig
<1>5. Len(c.target) \in Nat /\ DOMAIN c.target = 1 .. Len(c.target)
  BY <1>4
<1>6. ASSUME NEW j \in 1 .. Len(c.target)
      PROVE  c.target[j].name \in Names /\ c.target[j].weight \in Nat
  <2> DEFINE T == [name : Names, weight : 0 .. (Word - 1)]
  <2>1. c.target[j] \in T
    <3>1. c.target \in Seq(T)
      BY <1>4
    <3> HIDE DEF T
    <3> QED
      BY <3>1, <1>5
  <2>2. c.target[j].weight \in 0 .. (Word - 1) /\ c.target[j].name \in Names
    BY <2>1
  <2> QED
    BY <2>2, RouteAssumption
<1> QED
  BY <1>4, <1>5, <1>6 DEF c

(* Every route comes from a rule of the file.                              *)
LEMMA RoutesAre ==
  ASSUME BuildersInv, routeConfig # <<>>, NEW r \in Routes
  PROVE  \E k \in DOMAIN rdsConfig : \E n \in DOMAIN rdsConfig[k].cluster :
           r = route(rdsConfig[k].cluster[n], rdsConfig[k].retry)
<1>1. routeConfig.virtualHosts = virtualHosts(rdsConfig)
  BY DEF BuildersInv, BuiltInv, routeConfiguration
<1>2. PICK v \in ToSet(routeConfig.virtualHosts) : r \in ToSet(v.routes)
  BY DEF Routes
<1>3. PICK k \in DOMAIN rdsConfig : v.routes = virtualRoutes(rdsConfig[k].cluster, rdsConfig[k].retry)
  BY <1>1, <1>2 DEF virtualHosts, ToSet
<1>4. \E n \in DOMAIN rdsConfig[k].cluster :
        r = route(rdsConfig[k].cluster[n], rdsConfig[k].retry)
  BY <1>2, <1>3 DEF virtualRoutes, ToSet
<1> QED
  BY <1>4

WeightsRight(r, N) ==
  /\ SumOfWeights(r.clusters) \in Nat
  /\ SumOfWeights(r.clusters) < Word => r.totalWeight = SumOfWeights(r.clusters)
  /\ Tagged(r.clusters) => SumOfWeights(r.clusters) <= 100 * N

(* What a route says of its weights is what its list of targets sums to.   *)
LEMMA RouteWeights ==
  ASSUME BuildersInv, NEW k \in DOMAIN rdsConfig, NEW n \in DOMAIN rdsConfig[k].cluster, NEW action
  PROVE  WeightsRight(route(rdsConfig[k].cluster[n], action), Len(rdsConfig[k].cluster[n].target))
<1> DEFINE r == route(rdsConfig[k].cluster[n], action)
           targets == rdsConfig[k].cluster[n].target
           shown == r.clusters
           N == Len(targets)
<1>1. /\ targets \in Seq([name : Names, weight : 0 .. (Word - 1)])
      /\ N \in Nat /\ DOMAIN targets = 1 .. N
      /\ \A j \in 1 .. N : targets[j].weight \in Nat
  BY RuleIs
<1>2. shown = [j \in DOMAIN targets |-> cluster(targets[j])] /\ r.totalWeight = clusterTotalWeight(targets)
  BY DEF route
<1> HIDE DEF targets, r
<1>3. /\ DOMAIN shown = 1 .. N /\ Len(shown) = N
      /\ \A j \in 1 .. N : shown[j].weight = targets[j].weight
  BY <1>1, <1>2 DEF cluster
<1>4. /\ SumOfWeights(shown) < Word => clusterTotalWeight(targets) = SumOfWeights(shown)
      /\ (\A j \in 1 .. N : shown[j].weight <= 100) => SumOfWeights(shown) <= 100 * N
      /\ SumOfWeights(shown) \in Nat
  BY <1>1, <1>3, WeightsAddUp
<1>5. Tagged(shown) => \A j \in 1 .. N : shown[j].weight <= 100
  BY <1>3 DEF Tagged, ToSet
<1> QED
  BY <1>2, <1>4, <1>5 DEF targets, r, WeightsRight

(* The total of a route is the sum of its weights whenever that sum is a   *)
(* uint32, be the weights in their tags or not (clusterTotalWeight).       *)
THEOREM TotalIsSum ==
  Spec => [](routeConfig # <<>> =>
               \A r \in Routes : SumOfWeights(r.clusters) < Word =>
                                   r.totalWeight = SumOfWeights(r.clusters))
<1>1. BuildersInv => (routeConfig # <<>> =>
                        \A r \in Routes : SumOfWeights(r.clusters) < Word =>
                                            r.totalWeight = SumOfWeights(r.clusters))
  <2> SUFFICES ASSUME BuildersInv, routeConfig # <<>>, NEW r \in Routes
               PROVE  SumOfWeights(r.clusters) < Word => r.totalWeight = SumOfWeights(r.clusters)
    OBVIOUS
  <2>1. PICK k \in DOMAIN rdsConfig : \E n \in DOMAIN rdsConfig[k].cluster :
          r = route(rdsConfig[k].cluster[n], rdsConfig[k].retry)
    BY RoutesAre
  <2>2. PICK n \in DOMAIN rdsConfig[k].cluster :
          r = route(rdsConfig[k].cluster[n], rdsConfig[k].retry)
    BY <2>1
  <2>3. WeightsRight(r, Len(rdsConfig[k].cluster[n].target))
    BY <2>2, RouteWeights
  <2> QED
    BY <2>3 DEF WeightsRight
<1> QED
  BY <1>1, BuildersInvariance, PTL

(* A route has fewer targets than it takes for weights of 100 to exceed a  *)
(* uint32.  For the width of the program that is 42949672 targets.         *)
FewTargets ==
  \A f \in Files : \A k \in DOMAIN f.rds : \A n \in DOMAIN f.rds[k].cluster :
    100 * Len(f.rds[k].cluster[n].target) < Word

RoutesFew ==
  \A k \in DOMAIN rdsConfig : \A n \in DOMAIN rdsConfig[k].cluster :
    100 * Len(rdsConfig[k].cluster[n].target) < Word

(* So the weights of a route that obey their tags always add up to its     *)
(* total, unless the file has millions of targets in one route.            *)
THEOREM TotalsMatch == ASSUME FewTargets PROVE Spec => []TotalMatches
<1>1. Init => RoutesFew
  BY DEF Init, RdsInit, FewTargets, RoutesFew
<1>2. RoutesFew /\ [Next]_vars => RoutesFew'
  <2>1. [Next]_vars => rdsConfig' = rdsConfig
    BY DEF Next, Load, updateCds, updateEds, updateRds, updateLds, rdsCreate, rdsVars, vars
  <2> QED
    BY <2>1 DEF RoutesFew
<1>3. BuildersInv /\ RoutesFew => TotalMatches
  <2> SUFFICES ASSUME BuildersInv, RoutesFew, routeConfig # <<>>, NEW r \in Routes,
                      Tagged(r.clusters)
               PROVE  r.totalWeight = SumOfWeights(r.clusters)
    BY DEF TotalMatches
  <2>1. PICK k \in DOMAIN rdsConfig : \E n \in DOMAIN rdsConfig[k].cluster :
          r = route(rdsConfig[k].cluster[n], rdsConfig[k].retry)
    BY RoutesAre
  <2>2. PICK n \in DOMAIN rdsConfig[k].cluster :
          r = route(rdsConfig[k].cluster[n], rdsConfig[k].retry)
    BY <2>1
  <2> DEFINE N == Len(rdsConfig[k].cluster[n].target)
             sum == SumOfWeights(r.clusters)
  <2>3. sum \in Nat /\ sum <= 100 * N /\ (sum < Word => r.totalWeight = sum)
    <3>1. WeightsRight(r, N)
      BY <2>2, RouteWeights
    <3> QED
      BY <3>1 DEF WeightsRight
  <2>4. 100 * N < Word /\ N \in Nat
    BY RuleIs DEF RoutesFew
  <2> HIDE DEF N, sum
  <2>5. sum < Word
    BY <2>3, <2>4, RouteAssumption
  <2> QED
    BY <2>3, <2>5 DEF sum
<1> QED
  BY <1>1, <1>2, <1>3, BuildersInvariance, PTL DEF Spec

=============================================================================
