----------------------------- MODULE EntityLookup ------------------------------
(* How a label finds its entity (mlody/core/registry_view.py, the anchors of
   mlody/core/workspace.py, and resolve_label_to_value of
   mlody/resolver/resolver_impl.py). There are two ways: `setf' and
   Workspace.resolve look for an anchor in the registry of the whole workspace,
   `show' looks at the file the label names and then for the file's entity. A
   wildcard is first expanded into the labels of what is registered.

   A path is a sequence of tokens, one of which is "/": a stem is compared as the
   string it is, so that "team" is a prefix of "teams/a". A query is the set of
   kinds that it accepts; "", <<>> and {} stand for what a label leaves out. *)
EXTENDS Integers, Sequences, SequencesExt, FiniteSetsExt

CONSTANTS Tokens,     \* what paths are made of
          Files,      \* the stems of the .mlody files
          Skipped,    \* those a load leaves out
          Modules,   \* what a file may register, in order: kind and name
          Places,     \* Places[r]: the path of a root that was discovered
          Bare,       \* roots that have no path, only a value
          Labels,     \* the labels that are used
          Rels,   \* the workspace's own path below the repository, or <<>>
          PathRank,   \* PathRank[f]: the place of a file when paths are sorted as strings
          MaxWrites   \* bound: assignments

VARIABLES rel,     \* the workspace root, relative to the repository
          phase,   \* "load", "ready"
          loaded,  \* files that were evaluated
          reg,     \* the registry: all, in order, and byName of each kind
          globals, \* globals[f]: the symbols of the module f
          writes
lookupVars == <<rel, phase, loaded, reg, globals, writes>>

Kinds == {"task", "action", "value", "type"}
Names == {d.name : d \in UNION {Range(c) : c \in Modules}}
NoOne == [key |-> <<>>, rev |-> 0, whole |-> FALSE]

(* A file's path does not end with a separator, and what is registered has a name. *)
ASSUME LookupAssumption ==
  /\ "/" \in Tokens
  /\ Files \subseteq Seq(Tokens) /\ \A f \in Files : f # <<>> /\ f[Len(f)] # "/"
  /\ Modules \subseteq Seq([kind : Kinds, name : Names \ {""}])
  /\ \A r \in DOMAIN Places : Places[r] \in Seq(Tokens)
  /\ \A label \in Labels : label.path \in Seq(Tokens)
  /\ Rels \subseteq Seq(Tokens)

(* ------------------------------------------------------------ the registry *)
Entry(kind, stem, name, entity) ==
  [kind |-> kind, stem |-> stem, name |-> name, entity |-> entity]
SameKey(a, b) == a.kind = b.kind /\ a.stem = b.stem /\ a.name = b.name
(* NamedRegistry.register: a key keeps its position, and the kind has one table of
   names for all the files. *)
PutAll(all, e) ==
  IF \E i \in DOMAIN all : SameKey(all[i], e)
  THEN [i \in DOMAIN all |-> IF SameKey(all[i], e) THEN e ELSE all[i]]
  ELSE Append(all, e)
PutName(byName, e) == [byName EXCEPT ![e.kind][e.name] = e.entity]
Put(r, e) == [all |-> PutAll(r.all, e), byName |-> PutName(r.byName, e)]
(* The entries es[i] of the chosen positions, one after the other. *)
PutEach(r, es, chosen) ==
  LET upto[i \in 0..Len(es)] ==
        IF i = 0 THEN r ELSE IF i \in chosen THEN Put(upto[i - 1], es[i]) ELSE upto[i - 1]
  IN upto[Len(es)]
(* set_registry_entity does the same to what is registered already. *)
SetOnlyAll(r, es, chosen) == [PutEach(r, es, chosen) EXCEPT !.byName = r.byName]
SetEntities(r, es, chosen) == PutEach(r, es, chosen)

(* _register, once for each call of the file. *)
Registered(r, f, content) ==
  PutEach(r, [i \in DOMAIN content |->
                Entry(content[i].kind, f, content[i].name,
                      [key |-> <<content[i].kind, f, content[i].name>>, rev |-> 0, whole |-> FALSE])],
          DOMAIN content)
(* The module's globals, if each entity is also bound to its name. *)
Symbols(f, content) ==
  [n \in {d.name : d \in Range(content)} |->
     LET last == Max({i \in DOMAIN content : content[i].name = n})
     IN [key |-> <<content[last].kind, f, n>>, rev |-> 0, whole |-> FALSE]]
(* Evaluator.resolve and _convert_ports_to_structs: tasks and actions are
   rebuilt and written back, in the order of the registry. *)
Rebuilt(r) ==
  SetEntities(r, [i \in DOMAIN r.all |-> [r.all[i] EXCEPT !.entity.whole = TRUE]],
              {i \in DOMAIN r.all : r.all[i].kind \in {"task", "action"}})

(* ------------------------------------------------------------------ labels *)
Stripped(path) == IF path # <<>> /\ path[1] = "/" THEN Tail(path) ELSE path
Under(place, path) ==
  IF place = <<>> THEN path ELSE IF path = <<>> THEN place ELSE place \o <<"/">> \o path
HasPlace(root) == root \in DOMAIN Places
StemOf(label) == Under(IF HasPlace(label.root) THEN Places[label.root] ELSE <<>>, label.path)
(* _label_components: the filters of the fallback and of a wildcard. *)
Fits(label, stem) ==
  /\ HasPlace(label.root) => IsPrefix(Places[label.root], stem)
  /\ IsSuffix(label.path, stem)
(* Entries are told by their positions in the registry. *)
Preferred(r, label, found) ==
  LET asked == {i \in found : r.all[i].kind \in label.query}
  IN IF asked = {} THEN found ELSE asked
Rank(kind) == CASE kind = "task" -> 0 [] kind = "action" -> 1 [] kind = "value" -> 2 [] OTHER -> 3
Foremost(r, found) ==
  r.all[Min({i \in found : \A j \in found : Rank(r.all[i].kind) <= Rank(r.all[j].kind)})]

(* match_registry_entity_label: entries of exactly this stem, and if there are
   none, those that fit the label. *)
ExactOnly(r, label) ==
  {i \in DOMAIN r.all : r.all[i].stem = StemOf(label) /\ r.all[i].name = label.name}
Matches(r, label) ==
  LET named == {i \in DOMAIN r.all : r.all[i].name = label.name}
      exact == {i \in named : r.all[i].stem = StemOf(label)}
  IN IF exact # {} THEN exact ELSE {i \in named : Fits(label, r.all[i].stem)}
(* resolve_label_anchor: the registry, a root's own value, a module that may have
   to be loaded for it, or an aggregate of entities that is not written to. *)
Anchor(r, label) ==
  LET found == Matches(r, label)
      Is(how) == [how |-> how, entry |-> Entry("", <<>>, "", NoOne)]
  IN IF label.name = "" THEN Is("aggregate")
     ELSE IF label.root \in Bare THEN Is("root")
     ELSE IF label.root # "" /\ ~HasPlace(label.root) THEN Is("missing")
     ELSE IF found # {}
          THEN [how |-> "registry", entry |-> Foremost(r, Preferred(r, label, found))]
     ELSE IF label.root # "" THEN Is("missing")
     ELSE IF label.path \in Files THEN Is("module") ELSE Is("missing")

(* ------------------------------------------------------- what show finds *)
IsFolder(path) == path = <<>> \/ \E f \in Files : IsPrefix(path \o <<"/">>, f)
Traversed == {"task", "action", "value"}   \* TRAVERSAL_STRATEGIES, without users
(* _lookup_entity: the kinds registered under this stem and name; the entity is
   the one that the kind's table has for the name. *)
Canonical(r, e) == r.byName[e.kind][e.name]
LookupEntity(r, stem, name, query) ==
  LET here == {i \in DOMAIN r.all : r.all[i].stem = stem /\ r.all[i].name = name}
      asked == {i \in here : Canonical(r, r.all[i]).key[1] \in query}
      left == IF asked = {} THEN here ELSE asked
      known == {i \in left : r.all[i].kind \in Traversed}
  IN IF here = {} THEN NoOne
     ELSE Canonical(r, r.all[Min(IF known = {} THEN left ELSE known)])
(* _lookup_all_entities_by_query. *)
LookupAll(r, stem, query) ==
  {Canonical(r, e) : e \in {x \in Range(r.all) : x.stem = stem /\ x.kind \in Traversed
                                                 /\ x.kind \in query}}
(* resolve_label_to_value: a root, a folder, a file or an entity of a file. The
   file is looked for below the workspace root, unless the label has a root with
   a path: a root whose path is empty is looked for there too. *)
ShownBelow(root) == IF HasPlace(root) /\ Places[root] # <<>> THEN Places[root] ELSE rel
Show(r, label) ==
  LET stem == Under(ShownBelow(label.root), label.path)
      Is(what) == [what |-> what, entities |-> {}]
  IN IF label.root # "" /\ ~HasPlace(label.root) THEN Is("unresolved")
     ELSE IF IsFolder(stem) THEN Is(IF label.name = "" THEN "folder" ELSE "unresolved")
     ELSE IF stem \notin Files THEN Is("unresolved")
     ELSE IF label.name = "" THEN
            IF label.query = {} THEN Is("source")
            ELSE [what |-> "vector", entities |-> LookupAll(r, stem, label.query)]
     ELSE LET entity == LookupEntity(r, stem, label.name, label.query)
          IN IF entity = NoOne \/ entity.key[1] \notin Traversed THEN Is("unresolved")
             ELSE [what |-> "entity", entities |-> {entity}]

(* --------------------------------------------------------------- wildcards *)
(* expand_wildcard_label: the label of each entry whose file fits and that has the
   name or, when there is a query instead of a name, that the query accepts. *)
Candidates(r, label) ==
  {e \in Range(r.all) : (label.name # "" => e.name = label.name) /\ Fits(label, e.stem)}
Rest(root, stem) ==
  IF HasPlace(root) THEN Stripped(SubSeq(stem, Len(Places[root]) + 1, Len(stem))) ELSE stem
Concrete(label, e) ==
  [root |-> label.root, path |-> Rest(label.root, e.stem),
   name |-> IF label.name = "" /\ label.query = {} THEN "" ELSE e.name,
   query |-> label.query, wildcard |-> FALSE]
Expanded(r, label) ==
  {e \in Candidates(r, label) :
     /\ label.name = "" /\ label.query # {} => e.kind \in label.query
     /\ \/ label.root # "" \/ Rest(label.root, e.stem) # <<>>
        \/ label.name = "" /\ label.query = {}}
Expand(r, label) == {Concrete(label, e) : e \in Expanded(r, label)}
(* The labels in their order: that of the stems, and among those of one stem that
   of the names, which is of no consequence. *)
ByStem(items) == SetToSortSeq(items, LAMBDA a, b : PathRank[a.stem] < PathRank[b.stem])
ExpandInOrder(r, label) ==
  LET items == {[stem |-> e.stem, name |-> Concrete(label, e).name] : e \in Expanded(r, label)}
      sorted == ByStem(items)
  IN [i \in 1..Cardinality(items) |-> Concrete(label, sorted[i])]

(* ------------------------------------------------------------------ actions *)
LookupInit ==
  /\ rel \in Rels /\ phase = "load" /\ loaded = {} /\ writes = 0
  /\ reg = [all |-> <<>>, byName |-> [k \in Kinds |-> [n \in Names |-> NoOne]]]
  /\ globals = [f \in {} |-> <<>>]

Evaluated(f, content, symbols) ==
  /\ loaded' = loaded \union {f}
  /\ reg' = Registered(reg, f, content)
  /\ globals' = [g \in DOMAIN globals \union {f} |-> IF g = f THEN symbols ELSE globals[g]]

(* One file of the load, and the end of the load. *)
LoadFile(f, content) ==
  /\ phase = "load" /\ f \in Files \ (Skipped \union loaded)
  /\ Evaluated(f, content, Symbols(f, content))
  /\ UNCHANGED <<rel, phase, writes>>
Finish ==
  /\ phase = "load" /\ loaded = Files \ Skipped
  /\ phase' = "ready" /\ reg' = Rebuilt(reg)
  /\ UNCHANGED <<rel, loaded, globals, writes>>

(* Workspace.resolve of a label in a file that was not loaded evaluates it. *)
ResolveLoads(label, content) ==
  /\ phase = "ready" /\ ~label.wildcard /\ Anchor(reg, label).how = "module"
  /\ label.path \notin loaded
  /\ Evaluated(label.path, content, Symbols(label.path, content))
  /\ UNCHANGED <<rel, phase, writes>>

(* setf of an entity: the anchor of the label, or of each label of a wildcard, is
   written back under its key. *)
Written(r, labels) ==
  SetEntities(r, [i \in DOMAIN labels |->
                    [Anchor(r, labels[i]).entry EXCEPT !.entity.rev = writes + 1]],
              {i \in DOMAIN labels : \A j \in 1..(i - 1) : labels[j] # labels[i]})
Setf(label) ==
  LET labels == IF label.wildcard THEN ExpandInOrder(reg, label) ELSE <<label>>
  IN /\ phase = "ready" /\ writes < MaxWrites
     /\ labels # <<>> /\ \A i \in DOMAIN labels : Anchor(reg, labels[i]).how = "registry"
     /\ reg' = Written(reg, labels)
     /\ writes' = writes + 1
     /\ UNCHANGED <<rel, phase, loaded, globals>>
(* setf of a symbol of a module that it had to load writes the module's global,
   whatever the module has registered by that name. *)
SetfSymbol(label, content) ==
  /\ phase = "ready" /\ writes < MaxWrites
  /\ ~label.wildcard /\ Anchor(reg, label).how = "module" /\ label.path \notin loaded
  /\ label.name \in DOMAIN Symbols(label.path, content)
  /\ Evaluated(label.path, content,
               [Symbols(label.path, content) EXCEPT ![label.name].rev = writes + 1])
  /\ writes' = writes + 1
  /\ UNCHANGED <<rel, phase>>

LookupNext ==
  \/ \E f \in Files, c \in Modules : LoadFile(f, c)
  \/ Finish
  \/ \E l \in Labels : Setf(l)
  \/ \E l \in Labels, c \in Modules : ResolveLoads(l, c) \/ SetfSymbol(l, c)
LookupSpec == LookupInit /\ [][LookupNext]_lookupVars

(* -------------------------------------------------------------- properties *)
Whole(label) == label.name # "" /\ ~label.wildcard
(* Of this kind and name nothing else is registered, in no file. *)
Lone(e) == \A o \in Range(reg.all) : o.kind = e.kind /\ o.name = e.name => o = e
(* No other kind has this stem and name, and no other stem fits the label. *)
Plainly(label, e) ==
  \A o \in Range(reg.all) : o.name = e.name /\ (o.stem = e.stem \/ Fits(label, o.stem)) => o = e

(* The two ways to look up a label find the same entity, as it was last written,
   whatever was loaded, rebuilt and assigned: what setf has written to a label is
   what show prints for it. (Where a name is registered once: see below.) *)
ResolversAgree ==
  phase = "ready" =>
    \A label \in {l \in Labels : Whole(l)} :
      LET anchor == Anchor(reg, label)
          shown == Show(reg, label)
      IN (anchor.how = "registry" /\ shown.what = "entity"
          /\ Lone(anchor.entry) /\ Plainly(label, anchor.entry))
           => shown.entities = {anchor.entry.entity}

(* The label that a wildcard gives for an entry can mean no other file with that
   name: it is the entry's own path, or nothing else that is named so fits it. *)
MeansOnly(l, e) ==
  \/ e.stem = StemOf(l)
  \/ \A o \in Range(reg.all) :
       o.name = e.name /\ (o.stem = StemOf(l) \/ Fits(l, o.stem)) => o.stem = e.stem

(* Each label of a wildcard's expansion has an anchor in the registry, and each
   entity that the wildcard asked for is the anchor of its own label, unless that
   label means another file too.  (Roots and paths are compared as strings: below
   a root "team" the file teams/a is written as if it were team/s/a, and finds
   that one where there is one.  A kind that is not preferred shares its label
   with one that is, and an entity in the root's own path cannot be written as a
   label.) *)
ExpansionIsExact ==
  \A label \in {l \in Labels : l.wildcard} :
    LET expansion == Expand(reg, label)
        asked == {e \in Candidates(reg, label) :
                    /\ label.name = "" => e.kind \in label.query
                    /\ ~HasPlace(label.root) \/ e.stem # Places[label.root]}
    IN /\ label.name # "" \/ label.query # {}
       /\ label.root \notin Bare /\ (label.root = "" \/ HasPlace(label.root))
       => /\ \A l \in expansion : l.path # <<>> => Anchor(reg, l).how = "registry"
          /\ \A e \in asked :
               LET l == Concrete(label, e)
                   entry == Anchor(reg, l).entry
               IN /\ l \in expansion
                  /\ MeansOnly(l, e) => entry.stem = e.stem /\ entry.name = e.name

(* As the comment of _lookup_entity has it: show finds the entity that is
   registered under the label's own stem and name. *)
LookupOwnStem ==
  phase = "ready" =>
    \A label \in {l \in Labels : Whole(l) /\ l.root = ""} :
      \A entity \in Show(reg, label).entities : entity.key[2] = Under(rel, label.path)
================================================================================
