------------------------------ MODULE Preferences ------------------------------
(***************************************************************************)
(* The preference definitions of users and of the system, their order and  *)
(* the attributes in them: user_preference_definitions,                    *)
(* system_preference_definitions, preference_definitions, and the removal  *)
(* of attributes by media_attributes and indexer_accounts.  The system is  *)
(* one of the owners.  Handlers run in threads; what one does from its     *)
(* first flush to its commit is one step, for the flush takes the write    *)
(* lock.  The attributes a user excludes are left out: no order, and no    *)
(* definition, depends on them.                                            *)
(***************************************************************************)
EXTENDS Naturals, FiniteSets, Sequences

CONSTANTS
    PrefOwners,     \* users and the system
    System,
    Definitions,    \* ids of definitions
    Categories,     \* preferences
    Attributes,
    CategoryOf,     \* CategoryOf[a]
    Editors,        \* requests that edit
    Nobody,
    MaxIds          \* bound: the length of the list a reorder sends

VARIABLES
    defs,           \* per id: the definition with the row that owns it, or NoDef
    edit,           \* per request: what it has read
    disturbed       \* the owners whose order was last changed by something that renumbers only a part

preferenceVars == <<defs, edit, disturbed>>

ASSUME PreferencesAssumption ==
    IsFiniteSet(Definitions) /\ Nobody \notin PrefOwners /\ CategoryOf \in [Attributes -> Categories]

NoDef == [owner |-> Nobody]
NoEdit == [op |-> "idle"]

DefRows ==
    [owner : PrefOwners \union {Nobody}, category : Categories, order : Nat, attributes : SUBSET Attributes]
Creations == [op : {"create"}, owner : PrefOwners, category : Categories]
Reorders ==
    [op : {"reorder"}, owner : PrefOwners, items : Seq(Definitions),
     seen : UNION {[rows -> Nat] : rows \in SUBSET Definitions}]

PreferencesTypeOK ==
    /\ defs \in [Definitions -> {NoDef} \union DefRows]
    /\ edit \in [Editors -> {NoEdit} \union Creations \union Reorders]

PreferencesInit ==
    /\ defs = [d \in Definitions |-> NoDef]
    /\ edit = [e \in Editors |-> NoEdit]
    /\ disturbed = {}

\* A row of the owner; a definition whose user is gone stays behind without one.
RowsOf(table, o) == {d \in Definitions : table[d] # NoDef /\ table[d].owner = o}
AttributesOf(c) == {a \in Attributes : CategoryOf[a] = c}

-------------------------------------------------------------------------------
(* create                                                                  *)

LookCreateDefinition(e, o, c) ==
    /\ edit[e] = NoEdit
    /\ \A d \in RowsOf(defs, o) : defs[d].category # c
    /\ edit' = [edit EXCEPT ![e] = [op |-> "create", owner |-> o, category |-> c]]
    /\ UNCHANGED <<defs, disturbed>>

\* Mutant of NextOrder: the new row counts itself.
NextOrderItself(e) == Cardinality(RowsOf(defs, edit[e].owner)) + 1

\* The list is read after the flush of the definition.
NextOrder(e) == Cardinality(RowsOf(defs, edit[e].owner))

\* The attributes are of the category, and none comes twice.
WriteCreateDefinition(e, attributes) ==
    /\ edit[e].op = "create"
    /\ attributes \subseteq AttributesOf(edit[e].category)
    /\ \E d \in Definitions :
         /\ defs[d] = NoDef
         /\ defs' = [defs EXCEPT ![d] =
                       [owner |-> edit[e].owner, category |-> edit[e].category,
                        order |-> NextOrder(e), attributes |-> attributes]]
    /\ edit' = [edit EXCEPT ![e] = NoEdit]
    /\ UNCHANGED disturbed

-------------------------------------------------------------------------------
(* update, delete                                                          *)

UpdateDefinition(d, attributes) ==
    /\ defs[d] # NoDef /\ attributes \subseteq AttributesOf(defs[d].category)
    /\ defs' = [defs EXCEPT ![d].attributes = attributes]
    /\ UNCHANGED <<edit, disturbed>>

\* order_by(order): rows of equal order come in any order.
Sorted(table, o) ==
    {s \in [1..Cardinality(RowsOf(table, o)) -> RowsOf(table, o)] :
       /\ \A d \in RowsOf(table, o) : \E i \in DOMAIN s : s[i] = d
       /\ \A i, j \in DOMAIN s : i < j => table[s[i]].order <= table[s[j]].order}

Position(s, d) == CHOOSE i \in DOMAIN s : s[i] = d

\* The rest is renumbered from zero.
DeleteDefinition(d) ==
    /\ defs[d] # NoDef /\ defs[d].owner # Nobody
    /\ LET o == defs[d].owner
           rest == [defs EXCEPT ![d] = NoDef]
       IN /\ \E s \in Sorted(rest, o) :
               defs' = [x \in Definitions |->
                          IF x \in RowsOf(rest, o)
                          THEN [rest[x] EXCEPT !.order = Position(s, x) - 1] ELSE rest[x]]
          /\ disturbed' = disturbed \ {o}
    /\ UNCHANGED edit

-------------------------------------------------------------------------------
(* reorder                                                                 *)

\* item_map: of several definitions of a category the last of the list.
ItemOf(o, c, d) ==
    /\ d \in RowsOf(defs, o) /\ defs[d].category = c
    /\ \A x \in RowsOf(defs, o) : defs[x].category = c => defs[x].order <= defs[d].order

\* Reads the rows; the client sends categories, all of them or not.
LookReorder(e, o, ids) ==
    /\ edit[e] = NoEdit
    /\ \E item \in [{ids[i] : i \in DOMAIN ids} -> Definitions] :
         /\ \A c \in DOMAIN item : ItemOf(o, c, item[c])
         /\ edit' = [edit EXCEPT ![e] =
                       [op |-> "reorder", owner |-> o,
                        items |-> [i \in DOMAIN ids |-> item[ids[i]]],
                        seen |-> [d \in RowsOf(defs, o) |-> defs[d].order]]]
    /\ UNCHANGED <<defs, disturbed>>

\* The order each listed row gets: that of its last place.
NewOrders(items) ==
    [d \in {items[i] : i \in DOMAIN items} |->
       (CHOOSE i \in DOMAIN items :
          items[i] = d /\ \A j \in DOMAIN items : items[j] = d => j <= i) - 1]

\* Only a value that differs from the one read is written; a row that is gone fails the request.
WriteReorder(e) ==
    /\ edit[e].op = "reorder"
    /\ LET o == edit[e].owner
           new == NewOrders(edit[e].items)
           written == {d \in DOMAIN new : new[d] # edit[e].seen[d]}
           stale == edit[e].seen # [d \in RowsOf(defs, o) |-> defs[d].order]
       IN IF written \subseteq RowsOf(defs, o)
          THEN /\ defs' = [d \in Definitions |->
                             IF d \in written THEN [defs[d] EXCEPT !.order = new[d]] ELSE defs[d]]
               /\ disturbed' = IF stale \/ DOMAIN new # RowsOf(defs, o)
                                  \/ Len(edit[e].items) # Cardinality(DOMAIN new)
                               THEN disturbed \union {o} ELSE disturbed \ {o}
          ELSE UNCHANGED <<defs, disturbed>>
    /\ edit' = [edit EXCEPT ![e] = NoEdit]

-------------------------------------------------------------------------------
(* What comes from elsewhere.                                              *)

\* remove_attribute_from_all: an attribute that left the program, or the indexer of an account that
\* is deleted.  A definition left empty goes, and nobody renumbers.
RemoveAttribute(a) ==
    LET holding == {d \in Definitions : defs[d] # NoDef /\ a \in defs[d].attributes}
        empty == {d \in holding : defs[d].attributes = {a}}
    IN /\ holding # {}
       /\ defs' = [d \in Definitions |->
                     IF d \in empty THEN NoDef
                     ELSE IF d \in holding THEN [defs[d] EXCEPT !.attributes = @ \ {a}]
                     ELSE defs[d]]
       /\ disturbed' = disturbed \union {defs[d].owner : d \in empty}
       /\ UNCHANGED edit

\* The rows of a user go with the user, the definitions they point to do not.
DeleteUser(u) ==
    /\ u # System
    /\ defs' = [d \in Definitions |->
                  IF d \in RowsOf(defs, u) THEN [defs[d] EXCEPT !.owner = Nobody] ELSE defs[d]]
    /\ disturbed' = disturbed \ {u}
    /\ UNCHANGED edit

IdLists == UNION {[1..n -> Categories] : n \in 1..MaxIds}

PreferencesNext ==
    \/ \E e \in Editors :
         \/ \E o \in PrefOwners :
              \/ \E c \in Categories : LookCreateDefinition(e, o, c)
              \/ \E ids \in IdLists : LookReorder(e, o, ids)
         \/ \E attributes \in SUBSET Attributes : WriteCreateDefinition(e, attributes)
         \/ WriteReorder(e)
    \/ \E d \in Definitions :
         DeleteDefinition(d) \/ \E attributes \in SUBSET Attributes : UpdateDefinition(d, attributes)
    \/ \E a \in Attributes : RemoveAttribute(a)
    \/ \E u \in PrefOwners : DeleteUser(u)

PreferencesSpec == PreferencesInit /\ [][PreferencesNext]_preferenceVars

-------------------------------------------------------------------------------
\* The definitions of an owner are numbered from zero without a gap and without a tie, whatever
\* requests create, delete and reorder at the same time, except after a reorder that left some
\* out or worked on an old list and after a removal that took a whole definition; and the next
\* deletion or complete reorder puts that right (user_preference_definitions/service.py:52-134).
PriorityExact ==
    \A o \in PrefOwners \ disturbed :
      {defs[d].order : d \in RowsOf(defs, o)} = 0..(Cardinality(RowsOf(defs, o)) - 1)
===============================================================================
