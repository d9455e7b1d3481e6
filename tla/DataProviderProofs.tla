--------------------------- MODULE DataProviderProofs ---------------------------
(***************************************************************************)
(* Theorems about data providers: for every chain of calls of the builder, *)
(* any number of resources, IDs, categories, groups and tags.              *)
(***************************************************************************)
EXTENDS DataProvider, SequenceLemmas

-----------------------------------------------------------------------------
(* The first of the infos with one key.                                     *)

Occurrences(s, key, v) == Cardinality({i \in DOMAIN s : s[i][key] = v})
Occurs(s, key, v) == \E i \in DOMAIN s : s[i][key] = v

LEMMA FirstByCounts ==
  ASSUME NEW A, NEW infos \in Seq(A), NEW key, NEW v
  PROVE  Occurrences(FirstBy(key, infos), key, v) = IF Occurs(infos, key, v) THEN 1 ELSE 0
<1> DEFINE places == {i \in DOMAIN infos : \A j \in 1..(i - 1) : infos[j][key] # infos[i][key]}
           t == Picked(infos, places)
           found == {i \in DOMAIN t : t[i][key] = v}
<1>1. FirstBy(key, infos) = t
  BY DEF FirstBy
<1>2. DOMAIN infos \subseteq Nat /\ places \subseteq DOMAIN infos /\ DOMAIN infos = 1..Len(infos)
  OBVIOUS
<1>3. PICK h \in [DOMAIN t -> places \intersect DOMAIN infos] :
           /\ \A i \in DOMAIN t : t[i] = infos[h[i]]
           /\ \A i, j \in DOMAIN t : h[i] = h[j] => i = j
  BY PickedOnce
<1>4. \A x : x \in ToSet(t) <=> \E k \in places \intersect DOMAIN infos : infos[k] = x
  BY PickedElements
<1>5. ASSUME NEW k \in DOMAIN infos, infos[k][key] = v PROVE found # {}
  <2> DEFINE same == {j \in DOMAIN infos : infos[j][key] = v}
  <2>1. PICK n \in same : \A j \in same : n <= j
    BY <1>2, <1>5, LeastNumber
  <2>2. n \in DOMAIN infos /\ infos[n][key] = v
    OBVIOUS
  <2>3. ASSUME NEW j \in 1..(n - 1) PROVE infos[j][key] # v
    <3>1. j \in DOMAIN infos /\ ~(n <= j)
      BY <1>2, <2>2
    <3> QED
      BY <2>1, <3>1
  <2>4. n \in places
    BY <2>2, <2>3
  <2>5. infos[n] \in ToSet(t)
    BY <1>4, <2>2, <2>4
  <2>6. PICK i \in DOMAIN t : t[i] = infos[n]
    BY <2>5 DEF ToSet
  <2> QED
    BY <2>2, <2>6
<1>6. ASSUME NEW i \in found PROVE h[i] \in DOMAIN infos /\ infos[h[i]][key] = v
  BY <1>3
<1>7. ASSUME NEW i \in found, NEW j \in found PROVE i = j
  <2>1. /\ i \in DOMAIN t /\ j \in DOMAIN t
        /\ h[i] \in places /\ h[j] \in places /\ infos[h[i]][key] = v /\ infos[h[j]][key] = v
    BY <1>3
  <2>2. h[i] \in 1..Len(infos) /\ h[j] \in 1..Len(infos)
    BY <2>1
  <2>3. ~(h[i] \in 1..(h[j] - 1)) /\ ~(h[j] \in 1..(h[i] - 1))
    BY <2>1
  <2>4. h[i] = h[j]
    BY <2>2, <2>3
  <2> QED
    BY <1>3, <2>1, <2>4
<1> HIDE DEF found, t, places
<1>8. Cardinality(found) = IF found = {} THEN 0 ELSE 1
  BY <1>7, AtMostOne
<1>9. found # {} <=> Occurs(infos, key, v)
  BY <1>5, <1>6 DEF Occurs
<1> QED
  BY <1>1, <1>8, <1>9 DEF found, Occurrences

LEMMA FirstByElements ==
  ASSUME NEW A, NEW infos \in Seq(A), NEW key
  PROVE  /\ ToSet(FirstBy(key, infos)) \subseteq ToSet(infos)
         /\ \A x \in ToSet(infos) : \E y \in ToSet(FirstBy(key, infos)) : y[key] = x[key]
<1> DEFINE places == {i \in DOMAIN infos : \A j \in 1..(i - 1) : infos[j][key] # infos[i][key]}
           t == Picked(infos, places)
<1>1. FirstBy(key, infos) = t
  BY DEF FirstBy
<1>2. \A x : x \in ToSet(t) <=> \E k \in places \intersect DOMAIN infos : infos[k] = x
  BY PickedElements
<1>3. ASSUME NEW x \in ToSet(infos) PROVE \E y \in ToSet(t) : y[key] = x[key]
  <2> DEFINE same == {j \in DOMAIN infos : infos[j][key] = x[key]}
  <2>1. same \subseteq Nat /\ same # {} /\ DOMAIN infos = 1..Len(infos)
    BY DEF ToSet
  <2>2. PICK n \in same : \A j \in same : n <= j
    BY <2>1, LeastNumber
  <2>3. n \in DOMAIN infos /\ infos[n][key] = x[key]
    OBVIOUS
  <2>4. ASSUME NEW j \in 1..(n - 1) PROVE infos[j][key] # x[key]
    <3>1. j \in DOMAIN infos /\ ~(n <= j)
      BY <2>1, <2>3
    <3> QED
      BY <2>2, <3>1
  <2>5. n \in places
    BY <2>3, <2>4
  <2> QED
    BY <1>2, <2>3, <2>5
<1> HIDE DEF t
<1>4. ToSet(t) \subseteq ToSet(infos)
  BY <1>2 DEF ToSet
<1> QED
  BY <1>1, <1>3, <1>4

-----------------------------------------------------------------------------
(* Lists.                                                                   *)

TagsAllow(m, tags) == tags = {} \/ tags \intersect ToSet(m.tags) # {}

LEMMA MatchesGroups ==
  ASSUME NEW m, NEW names, NEW tags
  PROVE  Matches(m, [scope |-> "groups", names |-> names, tags |-> tags])
           <=> names \intersect ToSet(m.groups) # {} /\ TagsAllow(m, tags)
<1> DEFINE filter == [scope |-> "groups", names |-> names, tags |-> tags]
<1>1. filter.scope = "groups" /\ filter.names = names /\ filter.tags = tags
  OBVIOUS
<1> HIDE DEF filter
<1>2. Matches(m, filter) <=> names \intersect ToSet(m.groups) # {} /\ TagsAllow(m, tags)
  BY <1>1, Zenon DEF Matches, TagsAllow
<1> QED
  BY <1>2 DEF filter

LEMMA MatchesCategories ==
  ASSUME NEW m, NEW names, NEW tags
  PROVE  Matches(m, [scope |-> "categories", names |-> names, tags |-> tags])
           <=> m.category \in names /\ TagsAllow(m, tags)
<1> DEFINE filter == [scope |-> "categories", names |-> names, tags |-> tags]
<1>1. filter.scope = "categories" /\ filter.names = names /\ filter.tags = tags
      /\ "categories" # "groups"
  OBVIOUS
<1> HIDE DEF filter
<1>2. Matches(m, filter) <=> m.category \in names /\ TagsAllow(m, tags)
  BY <1>1, Zenon DEF Matches, TagsAllow
<1> QED
  BY <1>2 DEF filter

LEMMA MatchesAll ==
  ASSUME NEW m, NEW names, NEW tags
  PROVE  Matches(m, [scope |-> "none", names |-> names, tags |-> tags]) <=> TagsAllow(m, tags)
<1> DEFINE filter == [scope |-> "none", names |-> names, tags |-> tags]
<1>1. filter.scope = "none" /\ filter.tags = tags /\ "none" # "groups" /\ "none" # "categories"
  OBVIOUS
<1> HIDE DEF filter
<1>2. Matches(m, filter) <=> TagsAllow(m, tags)
  BY <1>1, Zenon DEF Matches, TagsAllow
<1> QED
  BY <1>2 DEF filter

LEMMA ListElements ==
  ASSUME NEW A, NEW resources \in Seq(A), NEW filter
  PROVE  /\ List(resources, filter) \in Seq(A)
         /\ \A m : m \in ToSet(List(resources, filter)) <=> m \in ToSet(resources) /\ Matches(m, filter)
<1> DEFINE places == {i \in DOMAIN resources : Matches(resources[i], filter)}
<1>1. List(resources, filter) = Picked(resources, places)
  BY DEF List
<1>2. /\ Picked(resources, places) \in Seq(A)
      /\ \A m : m \in ToSet(Picked(resources, places))
                 <=> \E k \in places \intersect DOMAIN resources : resources[k] = m
  BY PickedElements
<1>3. \A m : (\E k \in places \intersect DOMAIN resources : resources[k] = m)
                <=> m \in ToSet(resources) /\ Matches(m, filter)
  BY DEF ToSet
<1> QED
  BY <1>1, <1>2, <1>3

LEMMA InCategoryElements ==
  ASSUME NEW A, NEW resources \in Seq(A), NEW wanted
  PROVE  /\ InCategory(resources, wanted) \in Seq(A)
         /\ \A m : m \in ToSet(InCategory(resources, wanted))
                    <=> m \in ToSet(resources) /\ wanted \in {AnyCategory, m.category}
<1> DEFINE places == {i \in DOMAIN resources : wanted \in {AnyCategory, resources[i].category}}
<1>1. InCategory(resources, wanted) = Picked(resources, places)
  BY DEF InCategory
<1>2. /\ Picked(resources, places) \in Seq(A)
      /\ \A m : m \in ToSet(Picked(resources, places))
                 <=> \E k \in places \intersect DOMAIN resources : resources[k] = m
  BY PickedElements
<1>3. \A m : (\E k \in places \intersect DOMAIN resources : resources[k] = m)
                <=> m \in ToSet(resources) /\ wanted \in {AnyCategory, m.category}
  BY DEF ToSet
<1> QED
  BY <1>1, <1>2, <1>3

(* What a query finds: groups win over categories, and tags narrow.         *)
LEMMA FoundElements ==
  ASSUME NEW A, NEW resources \in Seq(A), NEW groups, NEW categories, NEW tags, NEW m
  PROVE  m \in ToSet(List(resources, DataFilter([groups |-> groups, categories |-> categories, tags |-> tags])))
           <=> /\ m \in ToSet(resources)
               /\ IF groups # {} THEN groups \intersect ToSet(m.groups) # {}
                  ELSE categories = {} \/ m.category \in categories
               /\ TagsAllow(m, tags)
<1> DEFINE query == [groups |-> groups, categories |-> categories, tags |-> tags]
<1>1. query.groups = groups /\ query.categories = categories /\ query.tags = tags
  OBVIOUS
<1> HIDE DEF query
<1>2. m \in ToSet(List(resources, DataFilter(query)))
        <=> m \in ToSet(resources) /\ Matches(m, DataFilter(query))
  BY ListElements
<1>3. CASE groups # {}
  <2>1. DataFilter(query) = [scope |-> "groups", names |-> groups, tags |-> tags]
    BY <1>1, <1>3 DEF DataFilter
  <2> QED
    BY <1>2, <1>3, <2>1, MatchesGroups DEF query
<1>4. CASE groups = {} /\ categories # {}
  <2>1. DataFilter(query) = [scope |-> "categories", names |-> categories, tags |-> tags]
    BY <1>1, <1>4 DEF DataFilter
  <2> QED
    BY <1>2, <1>4, <2>1, MatchesCategories DEF query
<1>5. CASE groups = {} /\ categories = {}
  <2>1. DataFilter(query) = [scope |-> "none", names |-> {}, tags |-> tags]
    BY <1>1, <1>5 DEF DataFilter
  <2> QED
    BY <1>2, <1>5, <2>1, MatchesAll DEF query
<1> QED
  BY <1>3, <1>4, <1>5

-----------------------------------------------------------------------------
(* Summaries: each name once, and exactly the names some resource bears.    *)

LEMMA CategoriesCount ==
  ASSUME NEW resources \in Seq(Metadata), NEW c
  PROVE  Cardinality({i \in DOMAIN CategoriesOf(resources) : CategoriesOf(resources)[i].category = c})
           = IF \E m \in ToSet(resources) : m.category = c THEN 1 ELSE 0
<1> DEFINE infos == [i \in DOMAIN resources |->
             [category |-> resources[i].category, translation |-> resources[i].translation]]
           A == {infos[i] : i \in DOMAIN resources}
           out == FirstBy("category", infos)
<1>1. CategoriesOf(resources) = out
  BY DEF CategoriesOf
<1>2. infos \in Seq(A)
  <2>1. DOMAIN resources = 1..Len(resources) /\ Len(resources) \in Nat
    OBVIOUS
  <2> QED
    BY <2>1
<1>3. Cardinality({i \in DOMAIN out : out[i]["category"] = c})
        = IF \E k \in DOMAIN infos : infos[k]["category"] = c THEN 1 ELSE 0
  <2> DEFINE key == "category"
  <2> HIDE DEF infos, A, key
  <2>1. Occurrences(FirstBy(key, infos), key, c) = IF Occurs(infos, key, c) THEN 1 ELSE 0
    BY <1>2, FirstByCounts
  <2> QED
    BY <2>1 DEF key, Occurrences, Occurs
<1>4. (\E k \in DOMAIN infos : infos[k]["category"] = c) <=> \E m \in ToSet(resources) : m.category = c
  BY DEF ToSet
<1> QED
  BY <1>1, <1>3, <1>4

GroupPair == [id : DataGroups, category : Categories]

LEMMA GroupPairsElements ==
  ASSUME NEW resources \in Seq(Metadata)
  PROVE  /\ GroupPairs(resources) \in Seq(GroupPair)
         /\ \A pair : pair \in ToSet(GroupPairs(resources)) <=>
              \E m \in ToSet(resources) : \E g \in ToSet(m.groups) :
                 pair = [id |-> g, category |-> m.category]
<1> DEFINE pairs(i) == [j \in DOMAIN resources[i].groups |->
                         [id |-> resources[i].groups[j], category |-> resources[i].category]]
           seqs == [i \in DOMAIN resources |-> pairs(i)]
<1>1. GroupPairs(resources) = FlattenSeq(seqs)
  BY DEF GroupPairs
<1>2. DOMAIN resources = 1..Len(resources) /\ Len(resources) \in Nat
  OBVIOUS
<1>3. ASSUME NEW i \in DOMAIN resources PROVE pairs(i) \in Seq(GroupPair)
  <2>1. resources[i] \in Metadata
    OBVIOUS
  <2>2. resources[i].groups \in Seq(DataGroups) /\ resources[i].category \in Categories
    BY <2>1 DEF Metadata
  <2> DEFINE groups == resources[i].groups
  <2>3. /\ groups \in Seq(DataGroups) /\ DOMAIN groups = 1..Len(groups) /\ Len(groups) \in Nat
        /\ \A j \in DOMAIN groups : groups[j] \in DataGroups
    BY <2>2
  <2>4. \A j \in DOMAIN groups : [id |-> groups[j], category |-> resources[i].category] \in GroupPair
    BY <2>2, <2>3 DEF GroupPair
  <2> QED
    BY <2>3, <2>4
<1>4. seqs \in Seq(Seq(GroupPair))
  <2> HIDE DEF pairs
  <2> QED
    BY <1>2, <1>3
<1>5. /\ FlattenSeq(seqs) \in Seq(GroupPair)
      /\ \A x : x \in ToSet(FlattenSeq(seqs)) <=> \E i \in DOMAIN seqs : x \in ToSet(seqs[i])
  <2> HIDE DEF seqs
  <2> QED
    BY <1>4, FlattenElements
<1>6. ASSUME NEW pair
      PROVE (\E i \in DOMAIN seqs : pair \in ToSet(seqs[i])) <=>
              \E m \in ToSet(resources) : \E g \in ToSet(m.groups) :
                 pair = [id |-> g, category |-> m.category]
  <2>1. \A i \in DOMAIN seqs : pair \in ToSet(seqs[i]) <=>
          \E g \in ToSet(resources[i].groups) : pair = [id |-> g, category |-> resources[i].category]
    BY DEF ToSet
  <2> HIDE DEF seqs
  <2>2. DOMAIN seqs = DOMAIN resources
    BY DEF seqs
  <2> QED
    BY <2>1, <2>2 DEF ToSet
<1> HIDE DEF seqs
<1> QED
  BY <1>1, <1>5, <1>6

LEMMA GroupsCount ==
  ASSUME NEW resources \in Seq(Metadata), NEW wanted, NEW g
  PROVE  Cardinality({i \in DOMAIN GroupsOf(resources, wanted) : GroupsOf(resources, wanted)[i].id = g})
           = IF \E m \in ToSet(resources) : wanted \in {AnyCategory, m.category} /\ g \in ToSet(m.groups)
             THEN 1 ELSE 0
<1> DEFINE chosen == InCategory(resources, wanted)
           pairs == GroupPairs(chosen)
           out == FirstBy("id", pairs)
<1>1. GroupsOf(resources, wanted) = out
  BY DEF GroupsOf
<1>2. /\ chosen \in Seq(Metadata)
      /\ \A m : m \in ToSet(chosen) <=> m \in ToSet(resources) /\ wanted \in {AnyCategory, m.category}
  BY InCategoryElements
<1> HIDE DEF chosen
<1>3. /\ pairs \in Seq(GroupPair)
      /\ \A pair : pair \in ToSet(pairs) <=>
              \E m \in ToSet(chosen) : \E h \in ToSet(m.groups) :
                 pair = [id |-> h, category |-> m.category]
  BY <1>2, GroupPairsElements
<1> HIDE DEF pairs
<1>4. Cardinality({i \in DOMAIN out : out[i]["id"] = g})
        = IF \E k \in DOMAIN pairs : pairs[k]["id"] = g THEN 1 ELSE 0
  <2> DEFINE key == "id"
  <2> HIDE DEF key
  <2>1. Occurrences(FirstBy(key, pairs), key, g) = IF Occurs(pairs, key, g) THEN 1 ELSE 0
    BY <1>3, FirstByCounts
  <2> QED
    BY <2>1 DEF key, Occurrences, Occurs
<1>5. (\E k \in DOMAIN pairs : pairs[k]["id"] = g) <=> \E pair \in ToSet(pairs) : pair.id = g
  BY DEF ToSet
<1>6. (\E pair \in ToSet(pairs) : pair.id = g) <=> \E m \in ToSet(chosen) : g \in ToSet(m.groups)
  <2>1. ASSUME NEW m \in ToSet(chosen), g \in ToSet(m.groups)
        PROVE \E pair \in ToSet(pairs) : pair.id = g
    <3>1. [id |-> g, category |-> m.category] \in ToSet(pairs)
      BY <1>3, <2>1
    <3> QED
      BY <3>1
  <2>2. ASSUME NEW pair \in ToSet(pairs), pair.id = g
        PROVE \E m \in ToSet(chosen) : g \in ToSet(m.groups)
    <3>1. PICK m \in ToSet(chosen) :
               \E h \in ToSet(m.groups) : pair = [id |-> h, category |-> m.category]
      BY <1>3
    <3> QED
      BY <2>2, <3>1
  <2> QED
    BY <2>1, <2>2
<1>7. (\E m \in ToSet(chosen) : g \in ToSet(m.groups)) <=>
        \E m \in ToSet(resources) : wanted \in {AnyCategory, m.category} /\ g \in ToSet(m.groups)
  BY <1>2
<1> QED
  BY <1>1, <1>4, <1>5, <1>6, <1>7

LEMMA TagsCount ==
  ASSUME NEW resources \in Seq(Metadata), NEW t
  PROVE  Cardinality({i \in DOMAIN TagsOf(resources) : TagsOf(resources)[i].id = t})
           = IF \E m \in ToSet(resources) : t \in ToSet(m.tags) THEN 1 ELSE 0
<1> DEFINE infos(i) == [j \in DOMAIN resources[i].tags |-> [id |-> resources[i].tags[j]]]
           seqs == [i \in DOMAIN resources |-> infos(i)]
           A == [id : DataTags]
           flat == FlattenSeq(seqs)
           out == FirstBy("id", flat)
<1>1. TagsOf(resources) = out
  BY DEF TagsOf
<1>2. DOMAIN resources = 1..Len(resources) /\ Len(resources) \in Nat
  OBVIOUS
<1>3. ASSUME NEW i \in DOMAIN resources PROVE infos(i) \in Seq(A)
  <2>1. resources[i] \in Metadata
    OBVIOUS
  <2>2. resources[i].tags \in Seq(DataTags)
    BY <2>1 DEF Metadata
  <2> DEFINE tags == resources[i].tags
  <2>3. /\ tags \in Seq(DataTags) /\ DOMAIN tags = 1..Len(tags) /\ Len(tags) \in Nat
        /\ \A j \in DOMAIN tags : tags[j] \in DataTags
    BY <2>2
  <2>4. \A j \in DOMAIN tags : [id |-> tags[j]] \in A
    BY <2>3
  <2> QED
    BY <2>3, <2>4
<1>4. seqs \in Seq(Seq(A))
  <2> HIDE DEF infos, A
  <2> QED
    BY <1>2, <1>3
<1>5. ASSUME NEW i \in DOMAIN resources
      PROVE (\E x \in ToSet(seqs[i]) : x.id = t) <=> t \in ToSet(resources[i].tags)
  <2> DEFINE tags == resources[i].tags
  <2>1. seqs[i] = [j \in DOMAIN tags |-> [id |-> tags[j]]]
    OBVIOUS
  <2> HIDE DEF tags, seqs
  <2>2. (\E x \in ToSet(seqs[i]) : x.id = t) <=> \E j \in DOMAIN tags : tags[j] = t
    BY <2>1 DEF ToSet
  <2> QED
    BY <2>2 DEF ToSet, tags
<1>6. DOMAIN seqs = DOMAIN resources
  OBVIOUS
<1> HIDE DEF seqs, A
<1>7. /\ flat \in Seq(A)
      /\ \A x : x \in ToSet(flat) <=> \E i \in DOMAIN seqs : x \in ToSet(seqs[i])
  BY <1>4, FlattenElements
<1> HIDE DEF flat
<1>8. Cardinality({i \in DOMAIN out : out[i]["id"] = t})
        = IF \E k \in DOMAIN flat : flat[k]["id"] = t THEN 1 ELSE 0
  <2> DEFINE key == "id"
  <2> HIDE DEF key
  <2>1. Occurrences(FirstBy(key, flat), key, t) = IF Occurs(flat, key, t) THEN 1 ELSE 0
    BY <1>7, FirstByCounts
  <2> QED
    BY <2>1 DEF key, Occurrences, Occurs
<1>9. (\E k \in DOMAIN flat : flat[k]["id"] = t) <=> \E x \in ToSet(flat) : x.id = t
  BY DEF ToSet
<1>10. (\E x \in ToSet(flat) : x.id = t) <=> \E i \in DOMAIN resources : t \in ToSet(resources[i].tags)
  BY <1>5, <1>6, <1>7
<1>11. (\E i \in DOMAIN resources : t \in ToSet(resources[i].tags))
         <=> \E m \in ToSet(resources) : t \in ToSet(m.tags)
  BY DEF ToSet
<1> QED
  BY <1>1, <1>8, <1>9, <1>10, <1>11

-----------------------------------------------------------------------------
(* The inductive invariant of the builder.                                  *)

(* The flags that the metadata shows are those of the adapter.              *)
FlagsAgree(m) ==
  /\ m.readable <=> m.adapter # "WriteOnlyAdapter"
  /\ m.writable <=> m.adapter # "ReadOnlyAdapter"

(* An ID is registered once at most.                                        *)
UniqueIds(s) == \A i, j \in DOMAIN s : s[i].id = s[j].id => i = j

ProviderInv ==
  /\ phase \in {"building", "built", "failed"}
  /\ builder \in Seq(Metadata) /\ provider \in Seq(Metadata)
  /\ \A i \in DOMAIN builder : FlagsAgree(builder[i])
  /\ \A i \in DOMAIN provider : FlagsAgree(provider[i])
  /\ UniqueIds(provider)

-----------------------------------------------------------------------------
(* One call of the builder.                                                 *)

LEMMA RegisterStep ==
  ASSUME ProviderInv, NEW id \in DataIds, NEW category \in Categories,
         NEW readable \in BOOLEAN, NEW writable \in BOOLEAN, NEW adapter \in Adapters,
         readable <=> adapter # "WriteOnlyAdapter", writable <=> adapter # "ReadOnlyAdapter",
         Register(id, category, readable, writable, adapter)
  PROVE  ProviderInv'
<1> DEFINE m == [id |-> id, category |-> category, groups |-> <<>>, tags |-> <<>>,
                 translation |-> NoTranslation,
                 readable |-> readable, writable |-> writable, adapter |-> adapter]
<1>1. m \in Metadata
  <2>1. <<>> \in Seq(DataGroups) /\ <<>> \in Seq(DataTags)
    OBVIOUS
  <2> QED
    BY <2>1 DEF Metadata
<1>2. FlagsAgree(m)
  BY DEF FlagsAgree
<1>3. builder' = Append(builder, m) /\ UNCHANGED <<phase, provider>>
  BY DEF Register
<1> HIDE DEF m
<1>4. builder \in Seq(Metadata) /\ \A i \in DOMAIN builder : FlagsAgree(builder[i])
  BY DEF ProviderInv
<1>5. builder' \in Seq(Metadata) /\ \A i \in DOMAIN builder' : FlagsAgree(builder'[i])
  <2>1. /\ builder' \in Seq(Metadata)
        /\ \A i \in DOMAIN builder' : builder'[i] = m \/ (i \in DOMAIN builder /\ builder'[i] = builder[i])
    BY <1>1, <1>3, <1>4
  <2> QED
    BY <1>2, <1>4, <2>1
<1> QED
  BY <1>3, <1>5 DEF ProviderInv, UniqueIds

LEMMA ConfigureStep ==
  ASSUME ProviderInv, NEW m \in Metadata, FlagsAgree(m), Configure(m)
  PROVE  ProviderInv'
<1>1. builder' = [builder EXCEPT ![Len(builder)] = m] /\ UNCHANGED <<phase, provider>>
  BY DEF Configure
<1>2. builder \in Seq(Metadata) /\ \A i \in DOMAIN builder : FlagsAgree(builder[i])
  BY DEF ProviderInv
<1>3. builder' \in Seq(Metadata) /\ \A i \in DOMAIN builder' : FlagsAgree(builder'[i])
  <2>1. /\ builder' \in Seq(Metadata) /\ DOMAIN builder' = DOMAIN builder
        /\ \A i \in DOMAIN builder : builder'[i] = m \/ builder'[i] = builder[i]
    <3>1. /\ DOMAIN builder = 1..Len(builder) /\ Len(builder) \in Nat
          /\ \A i \in DOMAIN builder : builder[i] \in Metadata
      BY <1>2
    <3>2. /\ DOMAIN builder' = DOMAIN builder
          /\ \A i \in DOMAIN builder : builder'[i] = m \/ builder'[i] = builder[i]
      BY <1>1
    <3>3. builder' = [i \in 1..Len(builder) |-> builder'[i]]
      BY <1>1, <3>1
    <3>4. \A i \in 1..Len(builder) : builder'[i] \in Metadata
      BY <3>1, <3>2
    <3>5. builder' \in Seq(Metadata)
      BY <3>1, <3>3, <3>4
    <3> QED
      BY <3>2, <3>5
  <2> QED
    BY <1>2, <2>1
<1> QED
  BY <1>1, <1>3 DEF ProviderInv, UniqueIds

LEMMA LastResource ==
  ASSUME ProviderInv, builder # <<>>
  PROVE  Last(builder) \in Metadata /\ FlagsAgree(Last(builder))
<1>1. builder \in Seq(Metadata) /\ \A i \in DOMAIN builder : FlagsAgree(builder[i])
  BY DEF ProviderInv
<1>2. Len(builder) \in DOMAIN builder
  BY <1>1
<1> QED
  BY <1>1, <1>2 DEF Last

LEMMA BuildStep ==
  ASSUME ProviderInv, Build
  PROVE  ProviderInv'
<1>1. CASE \E i, j \in DOMAIN builder : i # j /\ builder[i].id = builder[j].id
  BY <1>1 DEF Build, ProviderInv, UniqueIds
<1>2. CASE ~ \E i, j \in DOMAIN builder : i # j /\ builder[i].id = builder[j].id
  <2>1. phase' = "built" /\ provider' = builder /\ builder' = <<>>
    BY <1>2 DEF Build
  <2> QED
    BY <1>2, <2>1 DEF ProviderInv, UniqueIds
<1> QED
  BY <1>1, <1>2

-----------------------------------------------------------------------------
(* The inductive invariant.                                                 *)

LEMMA ProviderInvInit == ProviderInit => ProviderInv
BY DEF ProviderInit, ProviderInv, UniqueIds

LEMMA ProviderInvStep == ProviderInv /\ [ProviderNext]_providerVars => ProviderInv'
<1> SUFFICES ASSUME ProviderInv, [ProviderNext]_providerVars PROVE ProviderInv'
  OBVIOUS
<1>1. ASSUME NEW id \in DataIds, NEW category \in Categories, ReadData(id, category)
      PROVE ProviderInv'
  BY <1>1, RegisterStep DEF ReadData, Adapters
<1>2. ASSUME NEW id \in DataIds, NEW category \in Categories, WriteData(id, category)
      PROVE ProviderInv'
  BY <1>2, RegisterStep DEF WriteData, Adapters
<1>3. ASSUME NEW id \in DataIds, NEW category \in Categories, ReadWriteData(id, category)
      PROVE ProviderInv'
  BY <1>3, RegisterStep DEF ReadWriteData, Adapters
<1>4. ASSUME builder # <<>>, NEW groups \in GroupLists, SetGroups(groups) PROVE ProviderInv'
  <2> DEFINE m == [Last(builder) EXCEPT !.groups = groups]
  <2>1. m \in Metadata /\ FlagsAgree(m)
    BY <1>4, LastResource, ListsAssumption DEF Metadata, FlagsAgree
  <2> QED
    BY <1>4, <2>1, ConfigureStep DEF SetGroups
<1>5. ASSUME builder # <<>>, NEW tags \in TagLists, SetTags(tags) PROVE ProviderInv'
  <2> DEFINE m == [Last(builder) EXCEPT !.tags = tags]
  <2>1. m \in Metadata /\ FlagsAgree(m)
    BY <1>5, LastResource, ListsAssumption DEF Metadata, FlagsAgree
  <2> QED
    BY <1>5, <2>1, ConfigureStep DEF SetTags
<1>6. ASSUME builder # <<>>, NEW t \in Translations, SetTranslation(t) PROVE ProviderInv'
  <2> DEFINE m == [Last(builder) EXCEPT !.translation = t]
  <2>1. m \in Metadata /\ FlagsAgree(m)
    BY <1>6, LastResource DEF Metadata, FlagsAgree
  <2> QED
    BY <1>6, <2>1, ConfigureStep DEF SetTranslation
<1>7. CASE Build
  BY <1>7, BuildStep
<1>8. CASE UNCHANGED providerVars
  BY <1>8 DEF providerVars, ProviderInv, UniqueIds
<1> QED
  BY <1>1, <1>2, <1>3, <1>4, <1>5, <1>6, <1>7, <1>8 DEF ProviderNext

LEMMA ProviderInvHolds == ProviderSpec => []ProviderInv
<1> QED
  BY ProviderInvInit, ProviderInvStep, PTL DEF ProviderSpec

-----------------------------------------------------------------------------

(* A built provider serves each ID once, however often the builder was      *)
(* asked to register it.                                                    *)
THEOREM ProviderTypeCorrect == ProviderSpec => []ProviderTypeOK
<1>1. ProviderInv => ProviderTypeOK
  <2> SUFFICES ASSUME ProviderInv, NEW id \in DataIds
               PROVE  Cardinality({i \in DOMAIN provider : provider[i].id = id}) <= 1
    BY DEF ProviderInv, ProviderTypeOK
  <2> DEFINE found == {i \in DOMAIN provider : provider[i].id = id}
  <2>1. \A i, j \in found : i = j
    BY DEF ProviderInv, UniqueIds
  <2> HIDE DEF found
  <2>2. Cardinality(found) = IF found = {} THEN 0 ELSE 1
    BY <2>1, AtMostOne
  <2> QED
    BY <2>2 DEF found
<1> QED
  BY <1>1, ProviderInvHolds, PTL

(* The resource with an ID is the only one that a read or a write of that   *)
(* ID meets.                                                                *)
LEMMA FindOwn ==
  ASSUME ProviderInv, NEW m \in ToSet(provider)
  PROVE  Find(provider, m.id) = {m} /\ FlagsAgree(m) /\ m \in Metadata
<1>1. PICK i \in DOMAIN provider : provider[i] = m
  BY DEF ToSet
<1>2. FlagsAgree(m) /\ m \in Metadata
  BY <1>1 DEF ProviderInv
<1>3. ASSUME NEW n \in ToSet(provider), n.id = m.id PROVE n = m
  <2>1. PICK j \in DOMAIN provider : provider[j] = n
    BY DEF ToSet
  <2> QED
    BY <1>1, <1>3, <2>1 DEF ProviderInv, UniqueIds
<1> QED
  BY <1>2, <1>3 DEF Find

(* The metadata of a resource says truly whether it can be read and written. *)
THEOREM FlagsTruthfulHolds == ProviderSpec => []FlagsTruthful
<1>1. ProviderInv => FlagsTruthful
  <2> SUFFICES ASSUME ProviderInv, NEW m \in ToSet(provider)
               PROVE  /\ m.readable <=> ReadRefusals(provider, m.id) = {}
                      /\ m.writable <=> WriteRefusals(provider, m.id, TRUE) = {}
    BY DEF FlagsTruthful
  <2>1. Find(provider, m.id) = {m} /\ FlagsAgree(m) /\ m \in Metadata
    BY FindOwn
  <2>2. ReadRefusals(provider, m.id) = {} <=> m.adapter # "WriteOnlyAdapter"
    BY <2>1 DEF ReadRefusals
  <2>3. WriteRefusals(provider, m.id, TRUE) = {} <=> m.adapter # "ReadOnlyAdapter"
    BY <2>1 DEF WriteRefusals
  <2> QED
    BY <2>1, <2>2, <2>3 DEF FlagsAgree
<1> QED
  BY <1>1, ProviderInvHolds, PTL

-----------------------------------------------------------------------------

(* However long the provider and whatever the query: groups win over        *)
(* categories, tags narrow, and the categories share the resources out.     *)
THEOREM FiltersComposeHolds == ProviderSpec => []FiltersCompose
<1>1. ProviderInv => FiltersCompose
  <2> DEFINE Found(groups, categories, tags) ==
               ToSet(List(provider, DataFilter([groups |-> groups, categories |-> categories, tags |-> tags])))
  <2> SUFFICES ASSUME ProviderInv, NEW groups \in SUBSET DataGroups,
                      NEW categories \in SUBSET Categories, NEW tags \in SUBSET DataTags
               PROVE  /\ groups # {} => Found(groups, categories, tags) = Found(groups, {}, tags)
                      /\ Found(groups, categories, tags) \subseteq Found(groups, categories, {})
                      /\ categories \notin {{}, Categories} =>
                           /\ Found({}, categories, tags) \intersect Found({}, Categories \ categories, tags) = {}
                           /\ Found({}, categories, tags) \union Found({}, Categories \ categories, tags)
                                = Found({}, {}, tags)
    BY DEF FiltersCompose
  <2>1. ASSUME NEW gs, NEW cs, NEW ts, NEW m
        PROVE m \in Found(gs, cs, ts)
                <=> /\ m \in ToSet(provider)
                    /\ IF gs # {} THEN gs \intersect ToSet(m.groups) # {}
                       ELSE cs = {} \/ m.category \in cs
                    /\ TagsAllow(m, ts)
    BY FoundElements DEF ProviderInv
  <2> HIDE DEF Found
  <2>2. ASSUME NEW m PROVE TagsAllow(m, {})
    BY DEF TagsAllow
  <2>3. ASSUME NEW m \in ToSet(provider) PROVE m.category \in Categories
    <3>1. m \in Metadata
      BY DEF ProviderInv, ToSet
    <3> QED
      BY <3>1 DEF Metadata
  <2>4. ASSUME groups # {} PROVE Found(groups, categories, tags) = Found(groups, {}, tags)
    <3>1. ASSUME NEW m
          PROVE  m \in Found(groups, categories, tags) <=> m \in Found(groups, {}, tags)
      <4>1. m \in Found(groups, categories, tags)
              <=> /\ m \in ToSet(provider) /\ groups \intersect ToSet(m.groups) # {}
                  /\ TagsAllow(m, tags)
        BY <2>1, <2>4
      <4>2. m \in Found(groups, {}, tags)
              <=> /\ m \in ToSet(provider) /\ groups \intersect ToSet(m.groups) # {}
                  /\ TagsAllow(m, tags)
        BY <2>1, <2>4
      <4> QED
        BY <4>1, <4>2
    <3> HIDE DEF Found
    <3>2. \A S, T : (\A m : m \in S <=> m \in T) => S = T
      OBVIOUS
    <3> QED
      BY <3>1, <3>2
  <2>5. Found(groups, categories, tags) \subseteq Found(groups, categories, {})
    BY <2>1, <2>2
  <2>6. ASSUME categories \notin {{}, Categories}
        PROVE /\ Found({}, categories, tags) \intersect Found({}, Categories \ categories, tags) = {}
              /\ Found({}, categories, tags) \union Found({}, Categories \ categories, tags)
                   = Found({}, {}, tags)
    <3>1. categories # {} /\ Categories \ categories # {}
      BY <2>6
    <3> QED
      BY <2>1, <2>3, <3>1
  <2> QED
    BY <2>4, <2>5, <2>6
<1> QED
  BY <1>1, ProviderInvHolds, PTL

(* However long the provider: a summary names, once each, what a list       *)
(* filtered by that name would find.                                        *)
THEOREM SummariesMatchListsHolds == ProviderSpec => []SummariesMatchLists
<1>1. ProviderInv => SummariesMatchLists
  <2> SUFFICES ASSUME ProviderInv PROVE SummariesMatchLists
    OBVIOUS
  <2>1. provider \in Seq(Metadata)
    BY DEF ProviderInv
  <2>2. ASSUME NEW filter
        PROVE /\ List(provider, filter) \in Seq(Metadata)
              /\ \A m : m \in ToSet(List(provider, filter)) <=> m \in ToSet(provider) /\ Matches(m, filter)
    BY <2>1, ListElements
  <2>3. ASSUME NEW c \in Categories
        PROVE Counted(CategoriesOf(provider), LAMBDA info : info.category = c)
                = IF List(provider, OfCategory(c)) = <<>> THEN 0 ELSE 1
    <3>1. Counted(CategoriesOf(provider), LAMBDA info : info.category = c)
            = IF \E m \in ToSet(provider) : m.category = c THEN 1 ELSE 0
      BY <2>1, CategoriesCount DEF Counted
    <3>2. List(provider, OfCategory(c)) = <<>> <=> ToSet(List(provider, OfCategory(c))) = {}
      BY <2>2, EmptySequence
    <3>3. ASSUME NEW m PROVE Matches(m, OfCategory(c)) <=> m.category = c
      BY MatchesCategories DEF OfCategory, TagsAllow
    <3> QED
      BY <2>2, <3>1, <3>2, <3>3
  <2>4. ASSUME NEW g \in DataGroups, NEW c \in Categories \union {AnyCategory}
        PROVE Counted(GroupsOf(provider, c), LAMBDA group : group.id = g)
                = IF InCategory(List(provider, InGroup(g)), c) = <<>> THEN 0 ELSE 1
    <3> DEFINE list == List(provider, InGroup(g))
    <3>1. Counted(GroupsOf(provider, c), LAMBDA group : group.id = g)
            = IF \E m \in ToSet(provider) : c \in {AnyCategory, m.category} /\ g \in ToSet(m.groups)
              THEN 1 ELSE 0
      BY <2>1, GroupsCount DEF Counted
    <3>2. list \in Seq(Metadata) /\ \A m : m \in ToSet(list) <=> m \in ToSet(provider) /\ Matches(m, InGroup(g))
      BY <2>2
    <3>3. ASSUME NEW m PROVE Matches(m, InGroup(g)) <=> g \in ToSet(m.groups)
      BY MatchesGroups DEF InGroup, TagsAllow
    <3> HIDE DEF list
    <3>4. /\ InCategory(list, c) = <<>> <=> ToSet(InCategory(list, c)) = {}
          /\ \A m : m \in ToSet(InCategory(list, c)) <=> m \in ToSet(list) /\ c \in {AnyCategory, m.category}
      BY <3>2, InCategoryElements, EmptySequence
    <3>5. InCategory(list, c) = <<>> <=>
            ~ \E m \in ToSet(provider) : c \in {AnyCategory, m.category} /\ g \in ToSet(m.groups)
      BY <3>2, <3>3, <3>4
    <3> QED
      BY <3>1, <3>5 DEF list
  <2>5. ASSUME NEW t \in DataTags
        PROVE Counted(TagsOf(provider), LAMBDA tag : tag.id = t)
                = IF List(provider, Tagged(t)) = <<>> THEN 0 ELSE 1
    <3>1. Counted(TagsOf(provider), LAMBDA tag : tag.id = t)
            = IF \E m \in ToSet(provider) : t \in ToSet(m.tags) THEN 1 ELSE 0
      BY <2>1, TagsCount DEF Counted
    <3>2. List(provider, Tagged(t)) = <<>> <=> ToSet(List(provider, Tagged(t))) = {}
      BY <2>2, EmptySequence
    <3>3. ASSUME NEW m PROVE Matches(m, Tagged(t)) <=> t \in ToSet(m.tags)
      BY MatchesAll DEF Tagged, TagsAllow
    <3> QED
      BY <2>2, <3>1, <3>2, <3>3
  <2> QED
    BY <2>3, <2>4, <2>5 DEF SummariesMatchLists
<1> QED
  BY <1>1, ProviderInvHolds, PTL

-----------------------------------------------------------------------------
(* When filtered groups are a filter of the groups.                         *)

(* No group has resources of two categories.                                *)
OneCategoryPerGroup ==
  \A m, n \in ToSet(provider) :
    ToSet(m.groups) \intersect ToSet(n.groups) # {} => m.category = n.category

(* Then no pair is dropped for another with the same group.                 *)
LEMMA GroupsElements ==
  ASSUME provider \in Seq(Metadata), OneCategoryPerGroup, NEW wanted
  PROVE  \A pair : pair \in ToSet(GroupsOf(provider, wanted)) <=>
           \E m \in ToSet(provider) : \E g \in ToSet(m.groups) :
              wanted \in {AnyCategory, m.category} /\ pair = [id |-> g, category |-> m.category]
<1> DEFINE chosen == InCategory(provider, wanted)
           pairs == GroupPairs(chosen)
           out == FirstBy("id", pairs)
<1>1. GroupsOf(provider, wanted) = out
  BY DEF GroupsOf
<1>2. /\ chosen \in Seq(Metadata)
      /\ \A m : m \in ToSet(chosen) <=> m \in ToSet(provider) /\ wanted \in {AnyCategory, m.category}
  BY InCategoryElements
<1> HIDE DEF chosen
<1>3. /\ pairs \in Seq(GroupPair)
      /\ \A pair : pair \in ToSet(pairs) <=>
              \E m \in ToSet(chosen) : \E g \in ToSet(m.groups) :
                 pair = [id |-> g, category |-> m.category]
  BY <1>2, GroupPairsElements
<1> HIDE DEF pairs
<1>4. /\ ToSet(out) \subseteq ToSet(pairs)
      /\ \A x \in ToSet(pairs) : \E y \in ToSet(out) : y["id"] = x["id"]
  <2> DEFINE key == "id"
  <2> HIDE DEF key
  <2>1. /\ ToSet(FirstBy(key, pairs)) \subseteq ToSet(pairs)
        /\ \A x \in ToSet(pairs) : \E y \in ToSet(FirstBy(key, pairs)) : y[key] = x[key]
    BY <1>3, FirstByElements
  <2> QED
    BY <2>1 DEF key
<1> HIDE DEF out
<1>5. ASSUME NEW x \in ToSet(pairs), NEW y \in ToSet(pairs), y.id = x.id PROVE y = x
  <2>1. PICK m \in ToSet(chosen) : \E g \in ToSet(m.groups) : x = [id |-> g, category |-> m.category]
    BY <1>3
  <2>2. PICK n \in ToSet(chosen) : \E g \in ToSet(n.groups) : y = [id |-> g, category |-> n.category]
    BY <1>3
  <2>3. PICK g \in ToSet(m.groups) : x = [id |-> g, category |-> m.category]
    BY <2>1
  <2>4. PICK h \in ToSet(n.groups) : y = [id |-> h, category |-> n.category]
    BY <2>2
  <2>5. g = h
    BY <1>5, <2>3, <2>4
  <2>6. m.category = n.category
    BY <1>2, <2>5 DEF OneCategoryPerGroup
  <2> QED
    BY <2>3, <2>4, <2>5, <2>6
<1>6. \A x : x \in ToSet(out) <=> x \in ToSet(pairs)
  BY <1>4, <1>5
<1> QED
  BY <1>1, <1>2, <1>3, <1>6

(* The finding about groups has no other cause than a group of two          *)
(* categories: where there is none, the groups of a category are those that *)
(* the unfiltered list shows with it.                                       *)
THEOREM GroupsAgreeUnlessShared == ProviderSpec => [](OneCategoryPerGroup => GroupsFilterAgrees)
<1>1. ProviderInv => (OneCategoryPerGroup => GroupsFilterAgrees)
  <2> SUFFICES ASSUME ProviderInv, OneCategoryPerGroup, NEW c \in Categories
               PROVE  ToSet(GroupsOf(provider, c))
                        = {g \in ToSet(GroupsOf(provider, AnyCategory)) : g.category = c}
    BY DEF GroupsFilterAgrees
  <2>1. provider \in Seq(Metadata)
    BY DEF ProviderInv
  <2>2. \A pair : pair \in ToSet(GroupsOf(provider, c)) <=>
          \E m \in ToSet(provider) : \E g \in ToSet(m.groups) :
             c \in {AnyCategory, m.category} /\ pair = [id |-> g, category |-> m.category]
    BY <2>1, GroupsElements
  <2>3. \A pair : pair \in ToSet(GroupsOf(provider, AnyCategory)) <=>
          \E m \in ToSet(provider) : \E g \in ToSet(m.groups) :
             AnyCategory \in {AnyCategory, m.category} /\ pair = [id |-> g, category |-> m.category]
    BY <2>1, GroupsElements
  <2>4. c # AnyCategory
    BY FilterAssumption
  <2> DEFINE filtered == ToSet(GroupsOf(provider, c))
             all == ToSet(GroupsOf(provider, AnyCategory))
  <2>5. ASSUME NEW pair \in filtered PROVE pair \in all /\ pair.category = c
    <3>1. PICK m \in ToSet(provider) : \E g \in ToSet(m.groups) :
               c \in {AnyCategory, m.category} /\ pair = [id |-> g, category |-> m.category]
      BY <2>2
    <3> QED
      BY <2>3, <2>4, <3>1
  <2>6. ASSUME NEW pair \in all, pair.category = c PROVE pair \in filtered
    <3>1. PICK m \in ToSet(provider) : \E g \in ToSet(m.groups) :
               pair = [id |-> g, category |-> m.category]
      BY <2>3
    <3>2. m.category = c
      BY <2>6, <3>1
    <3> QED
      BY <2>2, <3>1, <3>2
  <2> QED
    BY <2>5, <2>6
<1> QED
  BY <1>1, ProviderInvHolds, PTL

=============================================================================
