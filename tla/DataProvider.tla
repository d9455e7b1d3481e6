---------------------------- MODULE DataProvider ----------------------------
(***************************************************************************)
(* The builder of a data provider (opensovd-providers/src/data/builder.rs) *)
(* as the chain of calls that a program makes, ended by build(), which uses *)
(* the builder up; and what the provider it builds lists and summarises.   *)
(***************************************************************************)
EXTENDS DataResources

CONSTANTS
  GroupLists, TagLists,  \* the arguments groups() and tags() are called with
  MaxResources           \* bound: resources registered with one builder

ASSUME ListsAssumption == GroupLists \subseteq Seq(DataGroups) /\ TagLists \subseteq Seq(DataTags)

VARIABLES
  phase,     \* building, built or failed
  builder,   \* the resources registered so far
  provider   \* what build() made of them

providerVars == <<phase, builder, provider>>

ProviderInit ==
  /\ phase = "building"
  /\ builder = <<>>
  /\ provider = <<>>

Register(id, category, readable, writable, adapter) ==
  /\ phase = "building"
  /\ Len(builder) < MaxResources
  /\ builder' = Append(builder,
       [id |-> id, category |-> category, groups |-> <<>>, tags |-> <<>>,
        translation |-> NoTranslation,
        readable |-> readable, writable |-> writable, adapter |-> adapter])
  /\ UNCHANGED <<phase, provider>>

ReadData(id, category) == Register(id, category, TRUE, FALSE, "ReadOnlyAdapter")
WriteData(id, category) == Register(id, category, FALSE, TRUE, "WriteOnlyAdapter")

(* Mutated form: the adapter of the neighbouring method.                    *)
ReadWriteDataReadOnly(id, category) == Register(id, category, TRUE, TRUE, "ReadOnlyAdapter")
ReadWriteData(id, category) == Register(id, category, TRUE, TRUE, "ReadWriteAdapter")

(* Options go to the resource registered last; without one they are lost.   *)
Configure(m) ==
  /\ phase = "building"
  /\ builder # <<>>
  /\ builder' = [builder EXCEPT ![Len(builder)] = m]
  /\ UNCHANGED <<phase, provider>>

SetGroups(groups) == Configure([Last(builder) EXCEPT !.groups = groups])
SetTags(tags) == Configure([Last(builder) EXCEPT !.tags = tags])
SetTranslation(t) == Configure([Last(builder) EXCEPT !.translation = t])

(* Mutated form: a duplicate replaces the resource registered before it.    *)
BuildOverwrites ==
  /\ phase = "building"
  /\ phase' = "built"
  /\ provider' = builder
  /\ builder' = <<>>

Build ==
  /\ phase = "building"
  /\ IF \E i, j \in DOMAIN builder : i # j /\ builder[i].id = builder[j].id
     THEN phase' = "failed" /\ UNCHANGED provider
     ELSE phase' = "built" /\ provider' = builder
  /\ builder' = <<>>

ProviderNext ==
  \/ \E id \in DataIds, category \in Categories :
       \/ ReadData(id, category)
       \/ WriteData(id, category)
       \/ ReadWriteData(id, category)
  \/ builder # <<>> /\ \E groups \in GroupLists : SetGroups(groups)
  \/ builder # <<>> /\ \E tags \in TagLists : SetTags(tags)
  \/ builder # <<>> /\ \E t \in Translations : SetTranslation(t)
  \/ Build

ProviderSpec == ProviderInit /\ [][ProviderNext]_providerVars

-----------------------------------------------------------------------------
(* Properties.                                                              *)

Counted(s, P(_)) == Cardinality({i \in DOMAIN s : P(s[i])})
InGroup(g) == [scope |-> "groups", names |-> {g}, tags |-> {}]
OfCategory(c) == [scope |-> "categories", names |-> {c}, tags |-> {}]
Tagged(t) == [scope |-> "none", names |-> {}, tags |-> {t}]

(* A built provider serves each ID once, in the order of registration.      *)
ProviderTypeOK ==
  /\ phase \in {"building", "built", "failed"}
  /\ builder \in Seq(Metadata)
  /\ provider \in Seq(Metadata)
  /\ phase = "built" => \A id \in DataIds : Cardinality({i \in DOMAIN provider : provider[i].id = id}) <= 1

(* The summaries name, once each, what a list filtered by that name would   *)
(* find: every category with a resource, every group with a resource of the *)
(* category asked for, every tag with a resource, and nothing else.         *)
SummariesMatchLists ==
  /\ \A c \in Categories :
       Counted(CategoriesOf(provider), LAMBDA info : info.category = c)
         = IF List(provider, OfCategory(c)) = <<>> THEN 0 ELSE 1
  /\ \A g \in DataGroups, c \in Categories \union {AnyCategory} :
       Counted(GroupsOf(provider, c), LAMBDA group : group.id = g)
         = IF InCategory(List(provider, InGroup(g)), c) = <<>> THEN 0 ELSE 1
  /\ \A t \in DataTags :
       Counted(TagsOf(provider), LAMBDA tag : tag.id = t)
         = IF List(provider, Tagged(t)) = <<>> THEN 0 ELSE 1

(* A query with groups finds the same whatever categories it names, tags    *)
(* only narrow it, and the categories share the resources out among them.   *)
FiltersCompose ==
  LET Found(groups, categories, tags) ==
        ToSet(List(provider, DataFilter([groups |-> groups, categories |-> categories, tags |-> tags])))
  IN \A groups \in SUBSET DataGroups, categories \in SUBSET Categories, tags \in SUBSET DataTags :
       /\ groups # {} => Found(groups, categories, tags) = Found(groups, {}, tags)
       /\ Found(groups, categories, tags) \subseteq Found(groups, categories, {})
       /\ categories \notin {{}, Categories} =>
            LET others == Categories \ categories IN
              /\ Found({}, categories, tags) \intersect Found({}, others, tags) = {}
              /\ Found({}, categories, tags) \union Found({}, others, tags) = Found({}, {}, tags)

(* What the metadata says of a resource is what its adapter does: it can be *)
(* read, or written with a value of its type, exactly if it is said to be.  *)
FlagsTruthful ==
  \A m \in ToSet(provider) :
    /\ m.readable <=> ReadRefusals(provider, m.id) = {}
    /\ m.writable <=> WriteRefusals(provider, m.id, TRUE) = {}

(* "Returns groups with their categories": the groups of one category are   *)
(* those that the unfiltered list shows with that category.                 *)
GroupsFilterAgrees ==
  \A c \in Categories :
    ToSet(GroupsOf(provider, c)) = {g \in ToSet(GroupsOf(provider, AnyCategory)) : g.category = c}

=============================================================================
