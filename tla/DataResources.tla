--------------------------- MODULE DataResources ---------------------------
(***************************************************************************)
(* The data resources of an entity as a provider serves them, with no      *)
(* state of their own here: the three adapters between a resource and the  *)
(* provider, the filter, and the summaries, of                             *)
(* opensovd-providers/src/data/builder.rs and opensovd-core/src/data.rs.   *)
(* A provider is the sequence of its resources in the order in which they  *)
(* were registered.  Names and schemas are left out.                       *)
(***************************************************************************)
EXTENDS Picking, SequencesExt

CONSTANTS
  DataIds, Categories, DataGroups, DataTags, Translations,
  AnyCategory,   \* no category filter
  NoTranslation  \* no translation ID

ASSUME FilterAssumption == AnyCategory \notin Categories /\ NoTranslation \notin Translations

Adapters == {"ReadOnlyAdapter", "WriteOnlyAdapter", "ReadWriteAdapter"}

Metadata == [id : DataIds, category : Categories, groups : Seq(DataGroups),
             tags : Seq(DataTags), translation : Translations \union {NoTranslation},
             readable : BOOLEAN, writable : BOOLEAN, adapter : Adapters]

-----------------------------------------------------------------------------
(* Reading and writing one resource.                                        *)

Find(provider, id) == {m \in ToSet(provider) : m.id = id}

(* How the provider itself refuses, before the resource is reached.  A      *)
(* value of another type fails to deserialise.                              *)
ReadRefusals(provider, id) ==
  IF Find(provider, id) = {} THEN {"not-found"}
  ELSE {"internal" : m \in {n \in Find(provider, id) : n.adapter = "WriteOnlyAdapter"}}

WriteRefusals(provider, id, typed) ==
  IF Find(provider, id) = {} THEN {"not-found"}
  ELSE {"read-only" : m \in {n \in Find(provider, id) : n.adapter = "ReadOnlyAdapter"}}
         \union {"internal" : m \in {n \in Find(provider, id) :
                                       n.adapter # "ReadOnlyAdapter" /\ ~typed}}

-----------------------------------------------------------------------------
(* Lists.                                                                   *)

(* Mutated form: categories win over groups.                                *)
DataFilterCategoriesFirst(query) ==
  IF query.categories # {}
  THEN [scope |-> "categories", names |-> query.categories, tags |-> query.tags]
  ELSE IF query.groups # {}
  THEN [scope |-> "groups", names |-> query.groups, tags |-> query.tags]
  ELSE [scope |-> "none", names |-> {}, tags |-> query.tags]

(* data_filter of routes/data.rs: groups win over categories, and an empty  *)
(* list is none.                                                            *)
DataFilter(query) ==
  IF query.groups # {}
  THEN [scope |-> "groups", names |-> query.groups, tags |-> query.tags]
  ELSE IF query.categories # {}
  THEN [scope |-> "categories", names |-> query.categories, tags |-> query.tags]
  ELSE [scope |-> "none", names |-> {}, tags |-> query.tags]

Matches(m, filter) ==
  /\ CASE filter.scope = "groups" -> filter.names \intersect ToSet(m.groups) # {}
       [] filter.scope = "categories" -> m.category \in filter.names
       [] OTHER -> TRUE
  /\ filter.tags = {} \/ filter.tags \intersect ToSet(m.tags) # {}

List(provider, filter) ==
  Picked(provider, {i \in DOMAIN provider : Matches(provider[i], filter)})

-----------------------------------------------------------------------------
(* Summaries.                                                               *)

(* filter(|x| seen.insert(x.key)): of the infos with one key, the first.    *)
FirstBy(key, infos) ==
  Picked(infos, {i \in DOMAIN infos : \A j \in 1..(i - 1) : infos[j][key] # infos[i][key]})

CategoriesOf(provider) ==
  FirstBy("category",
          [i \in DOMAIN provider |->
            [category |-> provider[i].category, translation |-> provider[i].translation]])

InCategory(provider, wanted) ==
  Picked(provider, {i \in DOMAIN provider : wanted \in {AnyCategory, provider[i].category}})

(* The pairs of a group and a category, one per group of each resource.     *)
GroupPairs(provider) ==
  FlattenSeq([i \in DOMAIN provider |->
    [j \in DOMAIN provider[i].groups |->
      [id |-> provider[i].groups[j], category |-> provider[i].category]]])

(* Mutated form: a group is summarised before the categories are filtered.  *)
GroupsOfFilteredLate(provider, wanted) ==
  InCategory(FirstBy("id", GroupPairs(provider)), wanted)

GroupsOf(provider, wanted) == FirstBy("id", GroupPairs(InCategory(provider, wanted)))

TagsOf(provider) ==
  FirstBy("id", FlattenSeq([i \in DOMAIN provider |->
    [j \in DOMAIN provider[i].tags |-> [id |-> provider[i].tags[j]]]]))

=============================================================================
