-------------------------- MODULE Alongside_proofs --------------------------
(***************************************************************************)
(* What the components beside the deliveries promise, for all constants.   *)
(***************************************************************************)
EXTENDS Alongside, Sums_proofs

-----------------------------------------------------------------------------
(* The published tree.                                                     *)

IsMap(f) == f = [p \in DOMAIN f |-> f[p]]

\* A document of a payload is one some attempt passed its checks with.
Published(p, doc) == \E docs \in bundles[p[1]] : p \in DOMAIN docs /\ doc = docs[p]

\* A naming file names the documents of one such payload and is as old as they.
NamesOf(docs) == {Tree!Entry(p, docs[p]) : p \in DOMAIN docs}
NamesOne(area, manifest) ==
    \E docs \in bundles[area] :
        manifest.names = NamesOf(docs) /\ \A p \in DOMAIN docs : docs[p].made = manifest.made

\* The paths of no payload.
Special == {Tree!HealthPath, Tree!Manifest("v1"), Tree!Manifest("explorer")}

\* An attempt passes its checks with at most one payload an area, so the path
\* and the attempt say which document it is.
BundlesInv ==
    /\ attempt \in Nat /\ DOMAIN bundles = Tree!Areas
    /\ \A area \in Tree!Areas : \A docs \in bundles[area] :
          /\ IsMap(docs)
          /\ \A p \in DOMAIN docs : p[1] = area /\ p \notin Special
          /\ \A p \in DOMAIN docs : docs[p].made \in 1..attempt
          /\ \A others \in bundles[area] : \A p \in DOMAIN docs, q \in DOMAIN others :
                docs[p].made = others[q].made => docs = others

\* What is on disk.
DiskInv ==
    /\ IsMap(tree)
    /\ \A p \in DOMAIN tree :
          /\ p[1] \in Tree!Areas /\ tree[p].made \in 0..attempt
          /\ p \notin Special => Published(p, tree[p])
    /\ \A area \in Tree!Areas : Tree!Manifest(area) \in DOMAIN tree =>
          /\ NamesOne(area, tree[Tree!Manifest(area)])
          /\ \A entry \in tree[Tree!Manifest(area)].names :
                /\ entry.path \in DOMAIN tree
                /\ tree[entry.path].made >= tree[Tree!Manifest(area)].made

\* What an attempt still has to move is of one payload, its naming file among
\* it until the last; what it prunes is not of that payload.
Moving(docs) ==
    LET rest == publisher.rest
        naming == Tree!Manifest(publisher.area)
    IN  /\ IsMap(rest)
        /\ DOMAIN rest \subseteq DOMAIN docs \cup {Tree!HealthPath, naming}
        /\ Tree!HealthPath \in DOMAIN rest => rest[Tree!HealthPath].made = attempt
        /\ publisher.area = "explorer" => Tree!HealthPath \notin DOMAIN rest
        /\ naming \in DOMAIN rest /\ rest[naming].names = NamesOf(docs) /\ rest[naming].made = attempt
        /\ \A p \in DOMAIN docs :
              /\ docs[p].made = attempt
              /\ p \in DOMAIN rest => rest[p] = docs[p]
              /\ p \notin DOMAIN rest => p \in DOMAIN tree /\ tree[p] = docs[p]
        /\ publisher.stale \cap DOMAIN docs = {}

PublisherInv ==
    /\ publisher.pc \in {"idle", "replace", "prune", "failed"}
    /\ publisher = [pc |-> publisher.pc, rest |-> publisher.rest, stale |-> publisher.stale,
                    area |-> publisher.area, events |-> publisher.events]
    /\ publisher.pc # "idle" => attempt >= 1
    /\ publisher.pc \in {"replace", "prune"} =>
          /\ publisher.area \in Tree!Areas
          /\ \A p \in publisher.stale : p[1] = publisher.area /\ p \notin Special
          /\ publisher.area = "v1" => \A docs \in bundles["explorer"] : \A p \in DOMAIN docs :
                docs[p].made # attempt
    /\ publisher.pc = "replace" => \E docs \in bundles[publisher.area] : Moving(docs)
    /\ publisher.pc = "prune" =>
          /\ Tree!Manifest(publisher.area) \in DOMAIN tree
          /\ \A entry \in tree[Tree!Manifest(publisher.area)].names :
                entry.path \notin publisher.stale

\* What a reader holds is no older than the naming file it began with, and what
\* it read first no newer than what it read again or what is on disk now.
ReaderInv ==
    reader.pc # "idle" =>
        LET m == reader.manifest
        IN  /\ reader = [pc |-> reader.pc, area |-> reader.area, manifest |-> m,
                         docs |-> reader.docs, digests |-> reader.digests]
            /\ reader.pc \in {"documents", "digests"}
            /\ reader.area \in Tree!Areas /\ NamesOne(reader.area, m)
            /\ m.made \in 0..attempt
            /\ \A p \in Tree!Named \cap DOMAIN tree : m.made <= tree[p].made
            /\ IsMap(reader.docs)
            /\ DOMAIN reader.digests \subseteq DOMAIN reader.docs
            /\ DOMAIN reader.docs \subseteq Tree!Named
            /\ \A p \in DOMAIN reader.docs :
                  /\ Published(p, reader.docs[p])
                  /\ m.made <= reader.docs[p].made /\ reader.docs[p].made \in 0..attempt
                  /\ p \in DOMAIN tree => reader.docs[p].made <= tree[p].made
                  /\ p \in DOMAIN reader.digests =>
                        reader.docs[p].made <= reader.digests[p].made
            /\ reader.area = "v1" => reader.digests = reader.docs
            /\ reader.pc = "digests" => reader.area # "v1" /\ DOMAIN reader.docs = Tree!Named

TreeInv == BundlesInv /\ DiskInv /\ PublisherInv /\ ReaderInv
\* The paths of an area, and of its files of their own.
LEMMA Paths ==
    /\ Tree!Areas = {"v1", "explorer"}
    /\ Tree!Manifest("v1") = <<"v1", "manifest">>
    /\ Tree!Manifest("explorer") = <<"explorer", "index">>
    /\ Tree!HealthPath = <<"v1", "health">>
    /\ Tree!Manifest("v1")[1] = "v1" /\ Tree!HealthPath[1] = "v1"
    /\ Tree!Manifest("explorer")[1] = "explorer"
    /\ Tree!HealthPath # Tree!Manifest("v1") /\ Tree!HealthPath # Tree!Manifest("explorer")
    /\ Tree!Manifest("v1") # Tree!Manifest("explorer")
    /\ Special = {Tree!HealthPath, Tree!Manifest("v1"), Tree!Manifest("explorer")}
  <1>1. /\ Tree!Manifest("v1") = <<"v1", "manifest">>
        /\ Tree!Manifest("explorer") = <<"explorer", "index">>
        /\ Tree!HealthPath = <<"v1", "health">>
    BY DEF Tree!Manifest, Tree!HealthPath
  <1> QED
    BY <1>1 DEF Tree!Areas, Special

\* The manifest of an area is special.
LEMMA ManifestIsSpecial ==
    ASSUME NEW area \in Tree!Areas
    PROVE  /\ Tree!Manifest(area) \in Special /\ Tree!Manifest(area)[1] = area
           /\ Tree!Manifest(area) # Tree!HealthPath
  <1>1. area = "v1" \/ area = "explorer"
    BY Paths
  <1>2. CASE area = "v1"
    BY <1>2, Paths
  <1>3. CASE area = "explorer"
    BY <1>3, Paths
  <1> QED
    BY <1>1, <1>2, <1>3

LEMMA SpecialIsNamed ==
    ASSUME NEW p \in Special, p # Tree!HealthPath
    PROVE  p = Tree!Manifest("v1") \/ p = Tree!Manifest("explorer")
  BY DEF Special

\* A payload's documents.
LEMMA PayloadOfV1 ==
    ASSUME NEW n, NEW events, NEW recommended
    PROVE  LET docs == Tree!V1Documents(n, events, recommended)
           IN  /\ IsMap(docs)
               /\ \A p \in DOMAIN docs : p[1] = "v1" /\ p \notin Special /\ docs[p].made = n
  <1> DEFINE docs == Tree!V1Documents(n, events, recommended)
  <1>1. /\ IsMap(docs)
        /\ DOMAIN docs = {Tree!EventsPath, Tree!RecsPath} \cup {Tree!DetailPath(e) : e \in events}
    BY DEF Tree!V1Documents, IsMap
  <1>2. ASSUME NEW p \in DOMAIN docs PROVE p[1] = "v1" /\ p \notin Special /\ docs[p].made = n
    <2>1. docs[p].made = n
      BY <1>1 DEF Tree!V1Documents, Tree!Doc
    <2>2. CASE p = Tree!EventsPath
      <3>1. p = <<"v1", "events">>
        BY <2>2 DEF Tree!EventsPath
      <3> QED
        BY <2>1, <3>1, Paths
    <2>3. CASE p = Tree!RecsPath
      <3>1. p = <<"v1", "recommendations">>
        BY <2>3 DEF Tree!RecsPath
      <3> QED
        BY <2>1, <3>1, Paths
    <2>4. CASE \E e \in events : p = Tree!DetailPath(e)
      <3>1. PICK e \in events : p = <<"v1", "event", e>>
        BY <2>4 DEF Tree!DetailPath
      <3>2. p[1] = "v1" /\ p[2] = "event"
        BY <3>1
      <3> QED
        BY <2>1, <3>2, Paths
    <2> QED
      BY <1>1, <2>2, <2>3, <2>4
  <1> QED
    BY <1>1, <1>2

LEMMA PayloadOfExplorer ==
    ASSUME NEW n, NEW events
    PROVE  LET docs == Tree!ExplorerDocuments(n, events)
           IN  /\ IsMap(docs)
               /\ \A p \in DOMAIN docs : p[1] = "explorer" /\ p \notin Special /\ docs[p].made = n
  <1> DEFINE docs == Tree!ExplorerDocuments(n, events)
  <1>1. /\ IsMap(docs)
        /\ DOMAIN docs = {Tree!ResearchPath(e) : e \in events}
    BY DEF Tree!ExplorerDocuments, IsMap
  <1>2. ASSUME NEW p \in DOMAIN docs PROVE p[1] = "explorer" /\ p \notin Special /\ docs[p].made = n
    <2>1. docs[p].made = n
      BY <1>1 DEF Tree!ExplorerDocuments, Tree!Doc
    <2>2. PICK e \in events : p = <<"explorer", "event", e>>
      BY <1>1 DEF Tree!ResearchPath
    <2>3. p[1] = "explorer" /\ p[2] = "event"
      BY <2>2
    <2> QED
      BY <2>1, <2>3, Paths
  <1> QED
    BY <1>1, <1>2

\* The file that names a payload.
LEMMA NamingOfDocs ==
    ASSUME NEW n, NEW docs, NEW items
    PROVE  /\ Tree!Naming(n, docs, items).names = NamesOf(docs)
           /\ Tree!Naming(n, docs, items).made = n
  BY DEF Tree!Naming, Tree!Doc, NamesOf

LEMMA NamedPaths ==
    ASSUME NEW docs
    PROVE  /\ {entry.path : entry \in NamesOf(docs)} = DOMAIN docs
           /\ \A entry \in NamesOf(docs) : entry.path \in DOMAIN docs /\ entry.sha = docs[entry.path]
           /\ \A p \in DOMAIN docs : Tree!Entry(p, docs[p]) \in NamesOf(docs)
  <1>1. \A p : Tree!Entry(p, docs[p]).path = p /\ Tree!Entry(p, docs[p]).sha = docs[p]
    BY DEF Tree!Entry
  <1>2. NamesOf(docs) = {Tree!Entry(p, docs[p]) : p \in DOMAIN docs}
    BY DEF NamesOf
  <1>3. \A entry \in NamesOf(docs) : entry.path \in DOMAIN docs /\ entry.sha = docs[entry.path]
    BY <1>1, <1>2
  <1>4. \A p \in DOMAIN docs : Tree!Entry(p, docs[p]) \in NamesOf(docs)
    BY <1>2
  <1>5. \A p \in DOMAIN docs : \E entry \in NamesOf(docs) : entry.path = p
    BY <1>1, <1>4
  <1>6. {entry.path : entry \in NamesOf(docs)} = DOMAIN docs
    BY <1>3, <1>5
  <1> QED
    BY <1>3, <1>4, <1>6

\* A document is known by its path and its attempt.
LEMMA OneDocument ==
    ASSUME BundlesInv, NEW p, p[1] \in Tree!Areas, NEW one, NEW other,
           Published(p, one), Published(p, other), one.made = other.made
    PROVE  one = other
  BY DEF BundlesInv, Published
-----------------------------------------------------------------------------
(* The steps of publishers and readers.                                    *)

\* Payloads only join the ones that passed.
Grown == \A area \in Tree!Areas : bundles[area] \subseteq bundles'[area]

LEMMA StillPublished ==
    ASSUME Grown, NEW p, p[1] \in Tree!Areas, NEW doc, Published(p, doc)
    PROVE  \E docs \in bundles'[p[1]] : p \in DOMAIN docs /\ doc = docs[p]
  BY DEF Grown, Published

LEMMA StillNames ==
    ASSUME Grown, NEW area \in Tree!Areas, NEW m, NamesOne(area, m)
    PROVE  \E docs \in bundles'[area] :
              m.names = NamesOf(docs) /\ \A p \in DOMAIN docs : docs[p].made = m.made
  BY DEF Grown, NamesOne

\* The paths a naming file names are in its area, and none is special.
LEMMA NamedInArea ==
    ASSUME BundlesInv, NEW area \in Tree!Areas, NEW m, NamesOne(area, m)
    PROVE  \A entry \in m.names : entry.path[1] = area /\ entry.path \notin Special
  <1>1. PICK docs \in bundles[area] : m.names = NamesOf(docs)
    BY DEF NamesOne
  <1>2. \A p \in DOMAIN docs : p[1] = area /\ p \notin Special
    BY DEF BundlesInv
  <1>3. \A entry \in m.names : entry.path \in DOMAIN docs
    BY <1>1, NamedPaths
  <1> QED
    BY <1>2, <1>3

\* A reader at rest, while files are replaced by those of the last attempt.
LEMMA ReaderRests ==
    ASSUME BundlesInv, ReaderInv, attempt' \in Nat, attempt <= attempt', Grown, reader' = reader,
           \A p \in DOMAIN tree' :
              \/ p \in DOMAIN tree /\ tree'[p] = tree[p]
              \/ tree'[p].made \in Nat /\ tree'[p].made >= attempt
    PROVE  ReaderInv'
  <1> SUFFICES ASSUME reader.pc # "idle" PROVE ReaderInv'
    BY DEF ReaderInv
  <1> DEFINE m == reader.manifest
  <1>1. attempt \in Nat /\ 0..attempt \subseteq 0..attempt'
    BY DEF BundlesInv
  <1>2. Tree!Named' = Tree!Named
    BY DEF Tree!Named
  <1>3. /\ reader.area \in Tree!Areas /\ NamesOne(reader.area, m) /\ m.made \in 0..attempt
        /\ \A p \in Tree!Named \cap DOMAIN tree : m.made <= tree[p].made
    BY DEF ReaderInv
  <1>4. NamesOne(reader.area, m)'
    BY <1>3, StillNames DEF NamesOne
  <1>5. \A p \in Tree!Named \cap DOMAIN tree' : m.made <= tree'[p].made
    BY <1>1, <1>3
  <1>6. ASSUME NEW p \in DOMAIN reader.docs
        PROVE  /\ \E docs \in bundles'[p[1]] : p \in DOMAIN docs /\ reader.docs[p] = docs[p]
               /\ reader.docs[p].made \in 0..attempt'
               /\ p \in DOMAIN tree' => reader.docs[p].made <= tree'[p].made
    <2>1. /\ Published(p, reader.docs[p]) /\ reader.docs[p].made \in 0..attempt
          /\ p \in DOMAIN tree => reader.docs[p].made <= tree[p].made
          /\ p \in Tree!Named
      BY DEF ReaderInv
    <2>2. p[1] \in Tree!Areas
      BY <1>3, <2>1, NamedInArea DEF Tree!Named
    <2> QED
      BY <1>1, <2>1, <2>2, StillPublished
  <1> QED
    BY <1>1, <1>2, <1>3, <1>4, <1>5, <1>6 DEF ReaderInv, Published

\* The disk at rest while attempts begin and end.
LEMMA DiskRests ==
    ASSUME BundlesInv, DiskInv, attempt' \in Nat, attempt <= attempt', Grown, tree' = tree
    PROVE  DiskInv'
  <1>1. attempt \in Nat /\ 0..attempt \subseteq 0..attempt'
    BY DEF BundlesInv
  <1>2. \A p \in DOMAIN tree : p[1] \in Tree!Areas /\ tree[p].made \in 0..attempt
    BY DEF DiskInv
  <1>3. ASSUME NEW p \in DOMAIN tree, p \notin Special
        PROVE  \E docs \in bundles'[p[1]] : p \in DOMAIN docs /\ tree[p] = docs[p]
    BY <1>2, <1>3, StillPublished DEF DiskInv
  <1>4. ASSUME NEW area \in Tree!Areas, Tree!Manifest(area) \in DOMAIN tree
        PROVE  \E docs \in bundles'[area] :
                  /\ tree[Tree!Manifest(area)].names = NamesOf(docs)
                  /\ \A p \in DOMAIN docs : docs[p].made = tree[Tree!Manifest(area)].made
    BY <1>4, StillNames DEF DiskInv
  <1> QED
    BY <1>1, <1>2, <1>3, <1>4 DEF DiskInv, Published, NamesOne

\* An attempt whose payload joins those that passed.
LEMMA PayloadJoins ==
    ASSUME BundlesInv, attempt' \in Nat, attempt <= attempt', NEW area \in Tree!Areas, NEW docs,
           IsMap(docs), attempt' >= 1,
           \A p \in DOMAIN docs : p[1] = area /\ p \notin Special /\ docs[p].made = attempt',
           \A others \in bundles[area] : \A p \in DOMAIN others : others[p].made # attempt',
           bundles' = [bundles EXCEPT ![area] = @ \cup {docs}]
    PROVE  BundlesInv' /\ Grown /\ docs \in bundles'[area]
           /\ \A other \in Tree!Areas \ {area} : bundles'[other] = bundles[other]
  <1>1. /\ DOMAIN bundles' = Tree!Areas /\ bundles'[area] = bundles[area] \cup {docs}
        /\ \A other \in Tree!Areas \ {area} : bundles'[other] = bundles[other]
    BY DEF BundlesInv
  <1>2. attempt \in Nat /\ 1..attempt \subseteq 1..attempt' /\ attempt' \in 1..attempt'
    BY DEF BundlesInv
  <1>3. ASSUME NEW a \in Tree!Areas, NEW d \in bundles'[a]
        PROVE  /\ IsMap(d)
               /\ \A p \in DOMAIN d : p[1] = a /\ p \notin Special /\ d[p].made \in 1..attempt'
               /\ \A others \in bundles'[a] : \A p \in DOMAIN d, q \in DOMAIN others :
                     d[p].made = others[q].made => d = others
    <2>1. CASE a # area
      BY <1>1, <1>2, <2>1 DEF BundlesInv
    <2>2. CASE a = area /\ d # docs
      BY <1>1, <1>2, <2>2 DEF BundlesInv
    <2>3. CASE a = area /\ d = docs
      BY <1>1, <1>2, <2>3
    <2> QED
      BY <2>1, <2>2, <2>3
  <1> QED
    BY <1>1, <1>3 DEF BundlesInv, Grown
\* What an attempt stages.
LEMMA StagedFields ==
    ASSUME NEW area, NEW docs, NEW extra, NEW events
    PROVE  LET s == Tree!Staged(area, docs, extra, events)
           IN  /\ s = [pc |-> s.pc, rest |-> s.rest, stale |-> s.stale, area |-> s.area,
                       events |-> s.events]
               /\ s.pc = "replace" /\ s.area = area
               /\ IsMap(s.rest)
               /\ DOMAIN s.rest = DOMAIN docs \cup DOMAIN extra
               /\ \A p \in DOMAIN docs : s.rest[p] = docs[p]
               /\ \A p \in DOMAIN extra \ DOMAIN docs : s.rest[p] = extra[p]
               /\ s.stale = {p \in DOMAIN tree : p[1] = area} \ (DOMAIN docs \cup DOMAIN extra)
  BY DEF Tree!Staged, Tree!InArea, IsMap

\* An attempt that begins to move what it staged.
LEMMA StagedIsMoving ==
    ASSUME BundlesInv', attempt' \in Nat, tree' = tree, NEW area \in Tree!Areas, NEW docs, docs \in bundles'[area],
           attempt' >= 1,
           \A p \in DOMAIN docs : p[1] = area /\ p \notin Special /\ docs[p].made = attempt',
           NEW extra, NEW events,
           DOMAIN extra \subseteq {Tree!HealthPath, Tree!Manifest(area)},
           Tree!Manifest(area) \in DOMAIN extra,
           {p \in Special : p[1] = area} \subseteq DOMAIN extra,
           area = "explorer" => Tree!HealthPath \notin DOMAIN extra,
           \A p \in DOMAIN extra : extra[p].made = attempt',
           extra[Tree!Manifest(area)].names = NamesOf(docs),
           area = "v1" => \A d \in bundles'["explorer"] : \A p \in DOMAIN d : d[p].made # attempt',
           publisher' = Tree!Staged(area, docs, extra, events)
    PROVE  PublisherInv'
  <1> DEFINE s == Tree!Staged(area, docs, extra, events)
             h == Tree!HealthPath
             n == Tree!Manifest(area)
  <1>1. /\ s = [pc |-> s.pc, rest |-> s.rest, stale |-> s.stale, area |-> s.area,
                events |-> s.events]
        /\ s.pc = "replace" /\ s.area = area
        /\ IsMap(s.rest)
        /\ DOMAIN s.rest = DOMAIN docs \cup DOMAIN extra
        /\ \A p \in DOMAIN docs : s.rest[p] = docs[p]
        /\ \A p \in DOMAIN extra \ DOMAIN docs : s.rest[p] = extra[p]
        /\ s.stale = {p \in DOMAIN tree : p[1] = area} \ (DOMAIN docs \cup DOMAIN extra)
    BY StagedFields
  <1> HIDE DEF s
  <1>2. publisher' = s
    BY DEF s
  <1>3. n \in Special /\ n[1] = area /\ n \notin DOMAIN docs /\ h \in Special /\ h \notin DOMAIN docs
    BY ManifestIsSpecial, Paths
  <1>4. \A p \in s.stale : p[1] = area /\ p \notin Special
    BY <1>1
  <1>5. s.rest[n] = extra[n] /\ n \in DOMAIN s.rest
    BY <1>1, <1>3
  <1>6. h \in DOMAIN s.rest => s.rest[h].made = attempt'
    BY <1>1, <1>3
  <1>7. area = "explorer" => h \notin DOMAIN s.rest
    BY <1>1, <1>3
  <1>8. /\ DOMAIN s.rest \subseteq DOMAIN docs \cup {h, n}
        /\ s.stale \cap DOMAIN docs = {}
    BY <1>1
  <1>9. Moving(docs)'
    BY <1>1, <1>2, <1>5, <1>6, <1>7, <1>8 DEF Moving
  <1> QED
    BY <1>1, <1>2, <1>4, <1>9 DEF PublisherInv

LEMMA BuildKeeps ==
    ASSUME TreeInv, NEW events, NEW recommended, Tree!Build(events, recommended)
    PROVE  TreeInv'
  <1> DEFINE n == attempt + 1
             docs == Tree!V1Documents(n, events, recommended)
             manifest == Tree!Naming(n, docs, {})
             extra == [p \in {Tree!HealthPath, Tree!Manifest("v1")} |->
                         IF p = Tree!HealthPath THEN Tree!Doc(n, {}) ELSE manifest]
  <1>1. /\ attempt' = n /\ attempt \in Nat /\ n \in Nat /\ attempt <= n /\ n >= 1
        /\ tree' = tree /\ reader' = reader /\ "v1" \in Tree!Areas
        /\ BundlesInv /\ DiskInv /\ PublisherInv /\ ReaderInv
    BY DEF TreeInv, BundlesInv, Tree!Build, Tree!Areas
  <1>2. /\ IsMap(docs)
        /\ \A p \in DOMAIN docs : p[1] = "v1" /\ p \notin Special /\ docs[p].made = n
    BY PayloadOfV1
  <1>3. manifest.names = NamesOf(docs) /\ manifest.made = n
    BY NamingOfDocs
  <1>4. \A a \in Tree!Areas : \A d \in bundles[a] : \A p \in DOMAIN d : d[p].made # n
    BY <1>1 DEF BundlesInv
  <1>5. \/ /\ publisher' = Tree!Staged("v1", docs, extra, events)
           /\ bundles' = [bundles EXCEPT !["v1"] = @ \cup {docs}]
        \/ /\ publisher' = [Tree!Idle EXCEPT !.pc = "failed"]
           /\ bundles' = bundles
    BY DEF Tree!Build
  <1>6. /\ DOMAIN extra = {Tree!HealthPath, Tree!Manifest("v1")}
        /\ extra[Tree!HealthPath].made = n
        /\ extra[Tree!Manifest("v1")] = manifest
    BY Paths DEF Tree!Doc
  <1> HIDE DEF docs, manifest, extra, n
  <1>7. CASE publisher' = Tree!Staged("v1", docs, extra, events)
             /\ bundles' = [bundles EXCEPT !["v1"] = @ \cup {docs}]
    <2>1. BundlesInv' /\ Grown /\ docs \in bundles'["v1"]
          /\ \A other \in Tree!Areas \ {"v1"} : bundles'[other] = bundles[other]
      <3>1. /\ attempt' \in Nat /\ attempt <= attempt' /\ attempt' >= 1
            /\ \A p \in DOMAIN docs : p[1] = "v1" /\ p \notin Special /\ docs[p].made = attempt'
            /\ \A others \in bundles["v1"] : \A p \in DOMAIN others : others[p].made # attempt'
        BY <1>1, <1>2, <1>4
      <3> QED
        BY ONLY <1>1, <1>2, <1>7, <3>1, PayloadJoins
    <2>2. DiskInv' /\ ReaderInv'
      BY <1>1, <2>1, DiskRests, ReaderRests
    <2>3. {p \in Special : p[1] = "v1"} \subseteq DOMAIN extra
      BY <1>6, Paths
    <2>4. \A d \in bundles'["explorer"] : \A p \in DOMAIN d : d[p].made # attempt'
      BY <1>1, <1>4, <2>1, Paths
    <2>5. PublisherInv'
      BY <1>1, <1>2, <1>3, <1>6, <1>7, <2>1, <2>3, <2>4, StagedIsMoving
    <2> QED
      BY <2>1, <2>2, <2>5 DEF TreeInv
  <1>8. CASE publisher' = [Tree!Idle EXCEPT !.pc = "failed"] /\ bundles' = bundles
    <2>1. BundlesInv'
      BY <1>1, <1>8 DEF BundlesInv
    <2>2. Grown
      BY <1>8 DEF Grown
    <2>3. DiskInv' /\ ReaderInv'
      BY <1>1, <2>2, DiskRests, ReaderRests
    <2>4. PublisherInv'
      BY <1>1, <1>8 DEF PublisherInv, Tree!Idle
    <2> QED
      BY <2>1, <2>3, <2>4 DEF TreeInv
  <1> QED
    BY <1>5, <1>7, <1>8
LEMMA PrunedKeeps ==
    ASSUME TreeInv, NEW old, NEW sound, Tree!Pruned(old, sound)
    PROVE  TreeInv'
  <1> DEFINE docs == Tree!ExplorerDocuments(attempt, publisher.events)
             index == Tree!Naming(attempt, docs, publisher.events)
             extra == [p \in {Tree!Manifest("explorer")} |-> index]
  <1>1. /\ attempt' = attempt /\ attempt \in Nat
        /\ tree' = tree /\ reader' = reader /\ "explorer" \in Tree!Areas
        /\ publisher.pc = "prune"
        /\ BundlesInv /\ DiskInv /\ PublisherInv /\ ReaderInv
    BY DEF TreeInv, BundlesInv, Tree!Pruned, Tree!Areas
  <1>2. \/ /\ publisher.area = "v1"
           /\ publisher' = Tree!Staged("explorer", docs, extra, publisher.events)
           /\ bundles' = [bundles EXCEPT !["explorer"] = @ \cup {docs}]
        \/ publisher' = Tree!Idle /\ bundles' = bundles
    BY DEF Tree!Pruned
  <1>3. CASE /\ publisher.area = "v1"
             /\ publisher' = Tree!Staged("explorer", docs, extra, publisher.events)
             /\ bundles' = [bundles EXCEPT !["explorer"] = @ \cup {docs}]
    <2>1. /\ IsMap(docs)
          /\ \A p \in DOMAIN docs : p[1] = "explorer" /\ p \notin Special /\ docs[p].made = attempt
      BY PayloadOfExplorer
    <2>2. index.names = NamesOf(docs) /\ index.made = attempt
      BY NamingOfDocs
    <2>3. \A d \in bundles["explorer"] : \A p \in DOMAIN d : d[p].made # attempt'
      BY <1>1, <1>3 DEF PublisherInv
    <2>4. DOMAIN extra = {Tree!Manifest("explorer")} /\ extra[Tree!Manifest("explorer")] = index
      OBVIOUS
    <2> HIDE DEF docs, index, extra
    <2>5. attempt >= 1
      BY <1>1 DEF PublisherInv
    <2>6. /\ attempt' \in Nat /\ attempt <= attempt' /\ attempt' >= 1
          /\ \A p \in DOMAIN docs : p[1] = "explorer" /\ p \notin Special /\ docs[p].made = attempt'
      BY <1>1, <2>1, <2>5
    <2>7. BundlesInv' /\ Grown /\ docs \in bundles'["explorer"]
      BY ONLY <1>1, <1>3, <2>1, <2>3, <2>6, PayloadJoins
    <2>8. DiskInv' /\ ReaderInv'
      BY <1>1, <2>6, <2>7, DiskRests, ReaderRests
    <2>9. {p \in Special : p[1] = "explorer"} \subseteq DOMAIN extra
      BY <2>4, Paths
    <2>10. PublisherInv'
      BY <1>1, <1>3, <2>2, <2>4, <2>6, <2>7, <2>9, Paths, StagedIsMoving
    <2> QED
      BY <2>7, <2>8, <2>10 DEF TreeInv
  <1>4. CASE publisher' = Tree!Idle /\ bundles' = bundles
    <2>1. BundlesInv' /\ Grown
      BY <1>1, <1>4 DEF BundlesInv, Grown
    <2>2. DiskInv' /\ ReaderInv'
      BY <1>1, <2>1, DiskRests, ReaderRests
    <2>3. PublisherInv'
      BY <1>4 DEF PublisherInv, Tree!Idle
    <2> QED
      BY <2>1, <2>2, <2>3 DEF TreeInv
  <1> QED
    BY <1>2, <1>3, <1>4

\* An attempt without payloads of its own.
LEMMA SameBundles ==
    ASSUME BundlesInv, attempt' = attempt, bundles' = bundles
    PROVE  BundlesInv' /\ Grown
  BY DEF BundlesInv, Grown

\* A file of a payload, or the health, moves into place.
LEMMA FileMoves ==
    ASSUME BundlesInv, DiskInv, attempt' = attempt, bundles' = bundles, NEW p, NEW doc,
           p[1] \in Tree!Areas, p = Tree!HealthPath \/ (p \notin Special /\ Published(p, doc)),
           doc.made = attempt, tree' = Tree!With(tree, p, doc)
    PROVE  DiskInv'
  <1>1. /\ IsMap(tree') /\ DOMAIN tree' = DOMAIN tree \cup {p} /\ tree'[p] = doc
        /\ \A q \in DOMAIN tree \ {p} : tree'[q] = tree[q]
    <2>1. tree' = Tree!With(tree, p, doc)
      OBVIOUS
    <2> QED
      BY ONLY <2>1 DEF Tree!With, IsMap
  <1>2. attempt \in Nat /\ attempt \in 0..attempt
    BY DEF BundlesInv
  <1>3. p # Tree!Manifest("v1") /\ p # Tree!Manifest("explorer")
    BY Paths
  <1>4. \A q \in DOMAIN tree' :
          /\ q[1] \in Tree!Areas /\ tree'[q].made \in 0..attempt
          /\ q \notin Special => Published(q, tree'[q])
          /\ q \in DOMAIN tree => tree'[q].made >= tree[q].made
    BY <1>1, <1>2, Paths DEF DiskInv
  <1>5. ASSUME NEW area \in Tree!Areas, Tree!Manifest(area) \in DOMAIN tree'
        PROVE  /\ NamesOne(area, tree'[Tree!Manifest(area)])
               /\ \A entry \in tree'[Tree!Manifest(area)].names :
                     /\ entry.path \in DOMAIN tree'
                     /\ tree'[entry.path].made >= tree'[Tree!Manifest(area)].made
    <2>1. Tree!Manifest(area) \in DOMAIN tree
          /\ tree'[Tree!Manifest(area)] = tree[Tree!Manifest(area)]
      BY <1>1, <1>3, <1>5, Paths
    <2>2. NamesOne(area, tree[Tree!Manifest(area)])
      BY <2>1 DEF DiskInv
    <2>3. ASSUME NEW entry \in tree[Tree!Manifest(area)].names
          PROVE  /\ entry.path \in DOMAIN tree'
                 /\ tree'[entry.path].made >= tree[Tree!Manifest(area)].made
      <3>1. /\ entry.path \in DOMAIN tree
            /\ tree[entry.path].made >= tree[Tree!Manifest(area)].made
            /\ tree[entry.path].made \in 0..attempt /\ tree[Tree!Manifest(area)].made \in 0..attempt
        BY <2>1 DEF DiskInv
      <3>2. entry.path \in DOMAIN tree' /\ tree'[entry.path].made >= tree[entry.path].made
            /\ tree'[entry.path].made \in 0..attempt
        BY <1>1, <1>4, <3>1
      <3> QED
        BY <1>2, <3>1, <3>2
    <2> QED
      BY <2>1, <2>2, <2>3
  <1> QED
    BY <1>1, <1>4, <1>5 DEF DiskInv, Published, NamesOne
\* The naming file moves into place, after all it names.
LEMMA NamingMoves ==
    ASSUME BundlesInv, DiskInv, attempt' = attempt, bundles' = bundles,
           NEW area \in Tree!Areas, NEW docs \in bundles[area], NEW m, m.names = NamesOf(docs), m.made = attempt,
           \A p \in DOMAIN docs : docs[p].made = attempt /\ p \in DOMAIN tree /\ tree[p] = docs[p],
           tree' = Tree!With(tree, Tree!Manifest(area), m)
    PROVE  DiskInv'
  <1> DEFINE n == Tree!Manifest(area)
  <1>1. /\ IsMap(tree') /\ DOMAIN tree' = DOMAIN tree \cup {n} /\ tree'[n] = m
        /\ \A q \in DOMAIN tree \ {n} : tree'[q] = tree[q]
    <2>1. tree' = Tree!With(tree, n, m)
      OBVIOUS
    <2> QED
      BY ONLY <2>1 DEF Tree!With, IsMap
  <1>2. attempt \in Nat /\ attempt \in 0..attempt
    BY DEF BundlesInv
  <1>3. n \in Special /\ n[1] = area
    BY ManifestIsSpecial
  <1> HIDE DEF n
  <1>4. \A q \in DOMAIN tree' :
          /\ q[1] \in Tree!Areas /\ tree'[q].made \in 0..attempt
          /\ q \notin Special => Published(q, tree'[q])
    BY <1>1, <1>2, <1>3 DEF DiskInv
  <1>5. ASSUME NEW a \in Tree!Areas, Tree!Manifest(a) \in DOMAIN tree'
        PROVE  /\ NamesOne(a, tree'[Tree!Manifest(a)])
               /\ \A entry \in tree'[Tree!Manifest(a)].names :
                     /\ entry.path \in DOMAIN tree'
                     /\ tree'[entry.path].made >= tree'[Tree!Manifest(a)].made
    <2>1. CASE a = area
      <3>1. tree'[Tree!Manifest(a)] = m
        BY <1>1, <2>1 DEF n
      <3>2. NamesOne(a, m)
        BY <2>1 DEF NamesOne
      <3>3. ASSUME NEW entry \in m.names
            PROVE  entry.path \in DOMAIN tree' /\ tree'[entry.path].made >= m.made
        <4>1. entry.path \in DOMAIN docs
          BY NamedPaths
        <4>2. entry.path # n
          BY <1>3, <4>1 DEF BundlesInv
        <4> QED
          BY <1>1, <1>2, <4>1, <4>2
      <3> QED
        BY <3>1, <3>2, <3>3
    <2>2. CASE a # area
      <3>1. Tree!Manifest(a) # n
        BY <1>3, <2>2, ManifestIsSpecial
      <3>2. Tree!Manifest(a) \in DOMAIN tree /\ tree'[Tree!Manifest(a)] = tree[Tree!Manifest(a)]
        BY <1>1, <1>5, <3>1
      <3>3. NamesOne(a, tree[Tree!Manifest(a)])
        BY <3>2 DEF DiskInv
      <3>4. \A entry \in tree[Tree!Manifest(a)].names : entry.path \notin Special
        BY <3>3, NamedInArea
      <3>5. \A entry \in tree[Tree!Manifest(a)].names :
                     /\ entry.path \in DOMAIN tree' /\ tree'[entry.path] = tree[entry.path]
                     /\ tree[entry.path].made >= tree[Tree!Manifest(a)].made
        BY <1>1, <1>3, <3>2, <3>4 DEF DiskInv
      <3> QED
        BY <3>2, <3>3, <3>5
    <2> QED
      BY <2>1, <2>2
  <1> QED
    BY <1>1, <1>4, <1>5 DEF DiskInv, Published, NamesOne

\* The order in which files move.
LEMMA MovesLast ==
    ASSUME NEW rest, NEW area, NEW p \in Tree!MovedNext(rest, area)
    PROVE  p \in DOMAIN rest
           /\ (p = Tree!Manifest(area) => Tree!Manifest(area) = Tree!HealthPath \/ DOMAIN rest = {p})
  BY DEF Tree!MovedNext

LEMMA ReplaceKeeps ==
    ASSUME TreeInv, NEW p, Tree!Replace(p)
    PROVE  TreeInv'
  <1> DEFINE h == Tree!HealthPath
             n == Tree!Manifest(publisher.area)
             rest == publisher.rest
             doc == rest[p]
  <1>1. /\ BundlesInv /\ DiskInv /\ PublisherInv /\ ReaderInv
        /\ attempt' = attempt /\ bundles' = bundles /\ reader' = reader
        /\ tree' = Tree!With(tree, p, doc)
        /\ publisher.pc = "replace" /\ p \in Tree!MovedNext(rest, publisher.area)
        /\ attempt \in Nat
    BY DEF TreeInv, Tree!Replace, BundlesInv
  <1>2. BundlesInv' /\ Grown
    BY <1>1, SameBundles
  <1>3. /\ publisher.area \in Tree!Areas
        /\ \A q \in publisher.stale : q[1] = publisher.area /\ q \notin Special
        /\ publisher.area = "v1" => \A d \in bundles["explorer"] : \A q \in DOMAIN d : d[q].made # attempt
        /\ attempt >= 1
    BY <1>1 DEF PublisherInv
  <1>4. PICK docs \in bundles[publisher.area] : Moving(docs)
    BY <1>1 DEF PublisherInv
  <1>5. n \in Special /\ n # h /\ h \in Special /\ n[1] = publisher.area
    BY <1>3, ManifestIsSpecial, Paths
  <1>6. \A q \in DOMAIN docs : q[1] = publisher.area /\ q \notin Special
    BY <1>1, <1>3 DEF BundlesInv
  <1>7. p \in DOMAIN rest /\ (p = n => DOMAIN rest = {p})
    BY <1>1, <1>5, MovesLast
  <1>8. /\ publisher' = [publisher EXCEPT !.rest = Tree!Without(rest, p),
                              !.pc = IF rest = [q \in {p} |-> doc] THEN "prune" ELSE "replace"]
        /\ \A q \in DOMAIN rest : q \in DOMAIN docs \/ q = h \/ q = n
    BY <1>1, <1>4 DEF Tree!Replace, Moving
  <1>9. doc.made = attempt
    BY <1>4, <1>7, <1>8 DEF Moving
  <1>10. ReaderInv'
    <2>1. \A q \in DOMAIN tree' : (q \in DOMAIN tree /\ tree'[q] = tree[q]) \/ tree'[q].made = attempt
      BY <1>1, <1>9 DEF Tree!With
    <2> QED
      BY <1>1, <1>2, <2>1, ReaderRests
  <1>11. CASE p # n
    <2>1. p = h \/ (p \notin Special /\ Published(p, doc))
      BY <1>3, <1>4, <1>6, <1>7, <1>8, <1>11 DEF Moving, Published
    <2>2. p[1] \in Tree!Areas
      BY <1>3, <1>6, <1>7, <1>8, <1>11, Paths
    <2>3. DiskInv'
      BY <1>1, <1>9, <2>1, <2>2, FileMoves
    <2>4. rest # [q \in {p} |-> doc]
      BY <1>4, <1>11 DEF Moving
    <2>5. /\ publisher' = [publisher EXCEPT !.rest = Tree!Without(rest, p), !.pc = "replace"]
      BY <1>8, <2>4
    <2>6. /\ publisher'.pc = "replace" /\ publisher'.area = publisher.area
          /\ publisher'.stale = publisher.stale /\ publisher'.rest = Tree!Without(rest, p)
          /\ publisher' = [pc |-> publisher'.pc, rest |-> publisher'.rest, stale |-> publisher'.stale,
                           area |-> publisher'.area, events |-> publisher'.events]
      BY <1>1, <2>5 DEF PublisherInv
    <2>7. /\ IsMap(publisher'.rest) /\ DOMAIN publisher'.rest = DOMAIN rest \ {p}
          /\ \A q \in DOMAIN rest \ {p} : publisher'.rest[q] = rest[q]
      BY <2>6 DEF Tree!Without, IsMap
    <2>8. /\ DOMAIN tree' = DOMAIN tree \cup {p} /\ tree'[p] = doc
          /\ \A q \in DOMAIN tree \ {p} : tree'[q] = tree[q]
      BY <1>1 DEF Tree!With
    <2>9. Moving(docs)'
      <3>1. \A q \in DOMAIN docs :
              /\ docs[q].made = attempt
              /\ q \in DOMAIN publisher'.rest => publisher'.rest[q] = docs[q]
              /\ q \notin DOMAIN publisher'.rest => q \in DOMAIN tree' /\ tree'[q] = docs[q]
        BY <1>4, <1>7, <2>7, <2>8 DEF Moving
      <3>2. n \in DOMAIN publisher'.rest /\ publisher'.rest[n] = rest[n]
        BY <1>4, <1>11, <2>7 DEF Moving
      <3>3. h \in DOMAIN publisher'.rest => h \in DOMAIN rest /\ publisher'.rest[h] = rest[h]
        BY <2>7
      <3> QED
        BY <1>1, <1>4, <2>6, <2>7, <3>1, <3>2, <3>3 DEF Moving
    <2>10. PublisherInv'
      BY <1>1, <1>3, <2>6, <2>9 DEF PublisherInv
    <2> QED
      BY <1>2, <1>10, <2>3, <2>10 DEF TreeInv
  <1>12. CASE p = n
    <2>1. \A q \in DOMAIN docs : docs[q].made = attempt /\ q \in DOMAIN tree /\ tree[q] = docs[q]
      BY <1>4, <1>5, <1>6, <1>7, <1>12 DEF Moving
    <2>2. doc.names = NamesOf(docs)
      BY <1>4, <1>12 DEF Moving
    <2>3. DiskInv'
      BY <1>1, <1>3, <1>9, <1>12, <2>1, <2>2, NamingMoves
    <2>4. rest = [q \in {p} |-> doc]
      BY <1>4, <1>7, <1>12 DEF Moving, IsMap
    <2>5. publisher' = [publisher EXCEPT !.rest = Tree!Without(rest, p), !.pc = "prune"]
      BY <1>8, <2>4
    <2>6. /\ publisher'.pc = "prune" /\ publisher'.area = publisher.area
          /\ publisher'.stale = publisher.stale
          /\ publisher' = [pc |-> publisher'.pc, rest |-> publisher'.rest, stale |-> publisher'.stale,
                           area |-> publisher'.area, events |-> publisher'.events]
      BY <1>1, <2>5 DEF PublisherInv
    <2>7. n \in DOMAIN tree' /\ tree'[n] = doc
      BY <1>1, <1>12 DEF Tree!With
    <2>8. \A entry \in doc.names : entry.path \notin publisher.stale
      BY <1>4, <2>2, NamedPaths DEF Moving
    <2>9. PublisherInv'
      BY <1>1, <1>3, <2>6, <2>7, <2>8 DEF PublisherInv
    <2> QED
      BY <1>2, <1>10, <2>3, <2>9 DEF TreeInv
  <1> QED
    BY <1>11, <1>12
LEMMA PruneKeeps ==
    ASSUME TreeInv, NEW p, Tree!Prune(p)
    PROVE  TreeInv'
  <1> DEFINE n == Tree!Manifest(publisher.area)
  <1>1. /\ BundlesInv /\ DiskInv /\ PublisherInv /\ ReaderInv
        /\ attempt' = attempt /\ bundles' = bundles /\ reader' = reader
        /\ publisher.pc = "prune" /\ p \in publisher.stale
        /\ publisher' = [publisher EXCEPT !.stale = publisher.stale \ {p}]
        /\ attempt \in Nat
    BY DEF TreeInv, Tree!Prune, BundlesInv
  <1>2. /\ IsMap(tree') /\ DOMAIN tree' = DOMAIN tree \ {p}
        /\ \A q \in DOMAIN tree \ {p} : tree'[q] = tree[q]
    BY DEF Tree!Prune, Tree!Without, IsMap
  <1>3. /\ publisher.area \in Tree!Areas /\ attempt >= 1
        /\ \A q \in publisher.stale : q[1] = publisher.area /\ q \notin Special
        /\ publisher.area = "v1" => \A d \in bundles["explorer"] : \A q \in DOMAIN d : d[q].made # attempt
        /\ n \in DOMAIN tree
        /\ \A entry \in tree[n].names : entry.path \notin publisher.stale
    BY <1>1 DEF PublisherInv
  <1>4. BundlesInv' /\ Grown
    BY <1>1, SameBundles
  <1>5. ReaderInv'
    BY <1>1, <1>2, <1>4, ReaderRests
  <1>6. p \notin Special /\ p[1] = publisher.area
    BY <1>1, <1>3
  <1>7. ASSUME NEW a \in Tree!Areas, Tree!Manifest(a) \in DOMAIN tree'
        PROVE  /\ NamesOne(a, tree'[Tree!Manifest(a)])
               /\ \A entry \in tree'[Tree!Manifest(a)].names :
                     /\ entry.path \in DOMAIN tree'
                     /\ tree'[entry.path].made >= tree'[Tree!Manifest(a)].made
    <2>1. Tree!Manifest(a) \in DOMAIN tree /\ tree'[Tree!Manifest(a)] = tree[Tree!Manifest(a)]
      BY <1>2, <1>7
    <2>2. /\ NamesOne(a, tree[Tree!Manifest(a)])
          /\ \A entry \in tree[Tree!Manifest(a)].names :
               /\ entry.path \in DOMAIN tree
               /\ tree[entry.path].made >= tree[Tree!Manifest(a)].made
      BY <1>1, <2>1 DEF DiskInv
    <2>3. \A entry \in tree[Tree!Manifest(a)].names : entry.path # p
      <3>1. CASE a = publisher.area
        BY <1>1, <1>3, <3>1
      <3>2. CASE a # publisher.area
        BY <1>1, <1>6, <2>2, <3>2, NamedInArea
      <3> QED
        BY <3>1, <3>2
    <2> QED
      BY <1>2, <2>1, <2>2, <2>3
  <1>8. DiskInv'
    BY <1>1, <1>2, <1>7 DEF DiskInv, Published, NamesOne
  <1>9. /\ publisher'.pc = "prune" /\ publisher'.area = publisher.area
        /\ publisher'.stale = publisher.stale \ {p}
        /\ publisher' = [pc |-> publisher'.pc, rest |-> publisher'.rest, stale |-> publisher'.stale,
                         area |-> publisher'.area, events |-> publisher'.events]
    BY <1>1 DEF PublisherInv
  <1>10. n \in DOMAIN tree' /\ tree'[n] = tree[n]
    BY <1>2, <1>3, <1>6, ManifestIsSpecial
  <1>11. PublisherInv'
    BY <1>1, <1>3, <1>9, <1>10 DEF PublisherInv
  <1> QED
    BY <1>4, <1>5, <1>8, <1>11 DEF TreeInv

LEMMA HealthOnlyKeeps ==
    ASSUME TreeInv, Tree!WriteHealthOnly
    PROVE  TreeInv'
  <1> DEFINE doc == Tree!Doc(attempt, {})
  <1>1. /\ BundlesInv /\ DiskInv /\ PublisherInv /\ ReaderInv
        /\ attempt' = attempt /\ bundles' = bundles /\ reader' = reader
        /\ publisher' = Tree!Idle /\ tree' = Tree!With(tree, Tree!HealthPath, doc)
        /\ attempt \in Nat
    BY DEF TreeInv, Tree!WriteHealthOnly, BundlesInv
  <1>2. doc.made = attempt
    BY DEF Tree!Doc
  <1> HIDE DEF doc
  <1>3. BundlesInv' /\ Grown
    BY <1>1, SameBundles
  <1>4. Tree!HealthPath[1] \in Tree!Areas
    BY Paths
  <1>5. DiskInv'
    BY <1>1, <1>2, <1>4, FileMoves
  <1>6. \A q \in DOMAIN tree' : (q \in DOMAIN tree /\ tree'[q] = tree[q]) \/ tree'[q].made = attempt
    BY <1>1, <1>2 DEF Tree!With
  <1>7. ReaderInv'
    BY <1>1, <1>3, <1>6, ReaderRests
  <1>8. PublisherInv'
    BY <1>1 DEF PublisherInv, Tree!Idle
  <1> QED
    BY <1>3, <1>5, <1>7, <1>8 DEF TreeInv

LEMMA CrashKeeps ==
    ASSUME TreeInv, Tree!Crash
    PROVE  TreeInv'
  <1>1. /\ BundlesInv /\ DiskInv /\ PublisherInv /\ ReaderInv
        /\ attempt' = attempt /\ bundles' = bundles /\ reader' = reader
        /\ publisher' = Tree!Idle /\ tree' = tree /\ attempt \in Nat
    BY DEF TreeInv, Tree!Crash, BundlesInv
  <1>2. BundlesInv' /\ Grown
    BY <1>1, SameBundles
  <1>3. DiskInv' /\ ReaderInv'
    BY <1>1, <1>2, DiskRests, ReaderRests
  <1>4. PublisherInv'
    BY <1>1 DEF PublisherInv, Tree!Idle
  <1> QED
    BY <1>2, <1>3, <1>4 DEF TreeInv

\* Readers change nothing.
LEMMA OnlyReads ==
    ASSUME TreeInv, UNCHANGED <<attempt, tree, publisher, bundles>>
    PROVE  BundlesInv' /\ DiskInv' /\ PublisherInv'
  <1>1. BundlesInv' /\ Grown
    BY SameBundles DEF TreeInv
  <1>2. DiskInv'
    BY <1>1, DiskRests DEF TreeInv, BundlesInv
  <1>3. PublisherInv'
    BY DEF TreeInv, PublisherInv, Moving
  <1> QED
    BY <1>1, <1>2, <1>3

LEMMA ReadManifestKeeps ==
    ASSUME TreeInv, NEW area \in Tree!Areas, Tree!ReadManifest(area)
    PROVE  TreeInv'
  <1> DEFINE m == tree[Tree!Manifest(area)]
  <1>1. /\ BundlesInv /\ DiskInv
        /\ UNCHANGED <<attempt, tree, publisher, bundles>>
        /\ Tree!Manifest(area) \in DOMAIN tree
        /\ reader' = [pc |-> "documents", area |-> area, manifest |-> m,
                      docs |-> Tree!NoPath, digests |-> Tree!NoPath]
    BY DEF TreeInv, Tree!ReadManifest
  <1>2. BundlesInv' /\ DiskInv' /\ PublisherInv'
    BY <1>1, OnlyReads
  <1>3. /\ NamesOne(area, m) /\ m.made \in 0..attempt
        /\ \A entry \in m.names : m.made <= tree[entry.path].made
    BY <1>1 DEF DiskInv, BundlesInv
  <1>4. Tree!Named' = {entry.path : entry \in m.names}
    BY <1>1 DEF Tree!Named
  <1>5. IsMap(Tree!NoPath) /\ DOMAIN Tree!NoPath = {}
    BY DEF IsMap, Tree!NoPath
  <1>7. /\ reader'.pc = "documents" /\ reader'.area = area /\ reader'.manifest = m
        /\ reader'.docs = Tree!NoPath /\ reader'.digests = Tree!NoPath
    BY <1>1
  <1>8. NamesOne(reader.area, reader.manifest)'
    BY <1>1, <1>3, <1>7 DEF NamesOne
  <1>9. ReaderInv'
    BY <1>1, <1>3, <1>4, <1>5, <1>7, <1>8 DEF ReaderInv, NamesOne
  <1> QED
    BY <1>2, <1>9 DEF TreeInv
LEMMA ReadFileKeeps ==
    ASSUME TreeInv, NEW p, reader.pc # "idle", Tree!ReadFile(p)
    PROVE  TreeInv'
  <1> DEFINE m == reader.manifest
  <1>1. /\ BundlesInv /\ DiskInv /\ ReaderInv
        /\ UNCHANGED <<attempt, tree, publisher, bundles>>
        /\ p \in Tree!Named /\ attempt \in Nat
    BY DEF TreeInv, Tree!ReadFile, BundlesInv
  <1>2. BundlesInv' /\ DiskInv' /\ PublisherInv'
    BY <1>1, OnlyReads
  <1>3. SUFFICES ASSUME reader'.pc # "idle" PROVE ReaderInv'
    BY <1>2 DEF TreeInv, ReaderInv
  <1>4. /\ reader = [pc |-> reader.pc, area |-> reader.area, manifest |-> m,
                     docs |-> reader.docs, digests |-> reader.digests]
        /\ reader.pc \in {"documents", "digests"}
        /\ reader.area \in Tree!Areas /\ NamesOne(reader.area, m) /\ m.made \in 0..attempt
        /\ \A q \in Tree!Named \cap DOMAIN tree : m.made <= tree[q].made
        /\ IsMap(reader.docs)
        /\ DOMAIN reader.digests \subseteq DOMAIN reader.docs
        /\ DOMAIN reader.docs \subseteq Tree!Named
        /\ reader.area = "v1" => reader.digests = reader.docs
        /\ reader.pc = "digests" => reader.area # "v1" /\ DOMAIN reader.docs = Tree!Named
    BY <1>1 DEF ReaderInv
  <1>5. \A q \in DOMAIN reader.docs :
           /\ Published(q, reader.docs[q])
           /\ m.made <= reader.docs[q].made /\ reader.docs[q].made \in 0..attempt
           /\ q \in DOMAIN tree => reader.docs[q].made <= tree[q].made
           /\ q \in DOMAIN reader.digests => reader.docs[q].made <= reader.digests[q].made
    BY <1>1 DEF ReaderInv
  <1>6. p \in DOMAIN tree
    BY <1>3 DEF Tree!ReadFile
  <1>7. p[1] = reader.area /\ p \notin Special
    BY <1>1, <1>4, NamedInArea DEF Tree!Named
  <1>8. Published(p, tree[p]) /\ tree[p].made \in 0..attempt /\ m.made <= tree[p].made
    BY <1>1, <1>4, <1>6, <1>7 DEF DiskInv
  <1>9. CASE reader.pc = "digests"
    <2>1. reader' = [reader EXCEPT !.digests = Tree!With(reader.digests, p, tree[p])]
      BY <1>6, <1>9 DEF Tree!ReadFile
    <2>2. /\ reader'.pc = reader.pc /\ reader'.area = reader.area /\ reader'.manifest = m
          /\ reader'.docs = reader.docs /\ reader'.digests = Tree!With(reader.digests, p, tree[p])
          /\ reader' = [pc |-> reader'.pc, area |-> reader'.area, manifest |-> reader'.manifest,
                        docs |-> reader'.docs, digests |-> reader'.digests]
      BY <1>4, <2>1
    <2>3. /\ DOMAIN reader'.digests = DOMAIN reader.digests \cup {p} /\ reader'.digests[p] = tree[p]
          /\ \A q \in DOMAIN reader.digests \ {p} : reader'.digests[q] = reader.digests[q]
      BY <2>2 DEF Tree!With
    <2>4. Tree!Named' = Tree!Named
      BY <2>2 DEF Tree!Named
    <2>5. p \in DOMAIN reader.docs
      BY <1>1, <1>4, <1>9
    <2>6. \A q \in DOMAIN reader.docs : q \in DOMAIN reader'.digests =>
             reader.docs[q].made <= reader'.digests[q].made
      BY <1>5, <1>6, <2>3, <2>5
    <2> QED
      BY <1>1, <1>4, <1>5, <1>9, <2>2, <2>3, <2>4, <2>5, <2>6 DEF ReaderInv, Published, NamesOne
  <1>10. CASE reader.pc # "digests"
    <2>1. /\ p \notin DOMAIN reader.docs
          /\ reader' = [reader EXCEPT !.docs = Tree!With(reader.docs, p, tree[p]),
                 !.digests = IF reader.area = "v1" THEN Tree!With(reader.digests, p, tree[p])
                             ELSE reader.digests,
                 !.pc = IF reader.area = "explorer" /\ DOMAIN reader.docs \cup {p} = Tree!Named
                        THEN "digests" ELSE reader.pc]
      BY <1>6, <1>10 DEF Tree!ReadFile
    <2>2. /\ reader'.pc = (IF reader.area = "explorer" /\ DOMAIN reader.docs \cup {p} = Tree!Named
                           THEN "digests" ELSE reader.pc)
          /\ reader'.area = reader.area /\ reader'.manifest = m
          /\ reader'.docs = Tree!With(reader.docs, p, tree[p])
          /\ reader'.digests = (IF reader.area = "v1" THEN Tree!With(reader.digests, p, tree[p])
                                ELSE reader.digests)
          /\ reader' = [pc |-> reader'.pc, area |-> reader'.area, manifest |-> reader'.manifest,
                        docs |-> reader'.docs, digests |-> reader'.digests]
      BY <1>4, <2>1
    <2>3. /\ IsMap(reader'.docs)
          /\ DOMAIN reader'.docs = DOMAIN reader.docs \cup {p} /\ reader'.docs[p] = tree[p]
          /\ \A q \in DOMAIN reader.docs \ {p} : reader'.docs[q] = reader.docs[q]
      BY <2>2 DEF Tree!With, IsMap
    <2>4. Tree!Named' = Tree!Named
      BY <2>2 DEF Tree!Named
    <2>5. reader.area = "v1" => reader'.digests = reader'.docs
      BY <1>4, <2>2
    <2>6. reader.area # "v1" => reader'.digests = reader.digests
      BY <2>2
    <2>7. DOMAIN reader'.digests \subseteq DOMAIN reader'.docs
      BY <1>4, <2>3, <2>5, <2>6
    <2>8. ASSUME NEW q \in DOMAIN reader'.docs
          PROVE  /\ Published(q, reader'.docs[q])
                 /\ m.made <= reader'.docs[q].made /\ reader'.docs[q].made \in 0..attempt
                 /\ q \in DOMAIN tree => reader'.docs[q].made <= tree[q].made
                 /\ q \in DOMAIN reader'.digests => reader'.docs[q].made <= reader'.digests[q].made
      <3>1. CASE q = p
        BY <1>1, <1>4, <1>8, <2>1, <2>3, <2>5, <2>6, <3>1
      <3>2. CASE q # p
        BY <1>1, <1>4, <1>5, <2>1, <2>3, <2>5, <2>6, <3>2
      <3> QED
        BY <3>1, <3>2
    <2>9. /\ reader'.pc \in {"documents", "digests"}
          /\ reader'.pc = "digests" => reader'.area # "v1" /\ DOMAIN reader'.docs = Tree!Named
      BY <1>4, <1>10, <2>2, <2>3
    <2> QED
      BY <1>1, <1>4, <2>2, <2>3, <2>4, <2>5, <2>7, <2>8, <2>9 DEF ReaderInv, Published, NamesOne
  <1> QED
    BY <1>9, <1>10

LEMMA ReadAgainKeeps ==
    ASSUME TreeInv, Tree!ReadAgain
    PROVE  TreeInv'
  <1>1. UNCHANGED <<attempt, tree, publisher, bundles>> /\ reader' = [pc |-> "idle"]
    BY DEF Tree!ReadAgain
  <1>2. BundlesInv' /\ DiskInv' /\ PublisherInv'
    BY <1>1, OnlyReads
  <1>3. ReaderInv'
    BY <1>1 DEF ReaderInv
  <1> QED
    BY <1>2, <1>3 DEF TreeInv

LEMMA TreeInitially == Tree!Init => TreeInv
  <1> SUFFICES ASSUME Tree!Init PROVE TreeInv
    OBVIOUS
  <1>1. /\ attempt = 0 /\ tree = Tree!NoPath /\ publisher = Tree!Idle
        /\ bundles = [a \in Tree!Areas |-> {}] /\ reader = [pc |-> "idle"]
    BY DEF Tree!Init
  <1>2. IsMap(tree) /\ DOMAIN tree = {}
    BY <1>1 DEF IsMap, Tree!NoPath
  <1>3. BundlesInv
    BY <1>1 DEF BundlesInv
  <1>4. DiskInv
    BY <1>2 DEF DiskInv
  <1>5. PublisherInv /\ ReaderInv
    BY <1>1 DEF PublisherInv, ReaderInv, Tree!Idle
  <1> QED
    BY <1>3, <1>4, <1>5 DEF TreeInv

LEMMA TreeKeeps == TreeInv /\ [Tree!Next]_treeVars => TreeInv'
  <1> SUFFICES ASSUME TreeInv, [Tree!Next]_treeVars PROVE TreeInv'
    OBVIOUS
  <1>1. ASSUME NEW board \in Boards, Tree!Build(board.events, board.recommended) PROVE TreeInv'
    BY <1>1, BuildKeeps
  <1>2. ASSUME NEW p \in DOMAIN publisher.rest, Tree!Replace(p) PROVE TreeInv'
    BY <1>2, ReplaceKeeps
  <1>3. ASSUME NEW p \in publisher.stale, Tree!Prune(p) PROVE TreeInv'
    BY <1>3, PruneKeeps
  <1>4. ASSUME NEW old \in BOOLEAN, NEW sound \in BOOLEAN, Tree!Pruned(old, sound) PROVE TreeInv'
    BY <1>4, PrunedKeeps
  <1>5. ASSUME Tree!WriteHealthOnly \/ Tree!Crash \/ Tree!ReadAgain PROVE TreeInv'
    BY <1>5, HealthOnlyKeeps, CrashKeeps, ReadAgainKeeps
  <1>6. ASSUME NEW area \in Tree!Areas, Tree!ReadManifest(area) PROVE TreeInv'
    BY <1>6, ReadManifestKeeps
  <1>7. ASSUME NEW p, Tree!ReadFile(p) PROVE TreeInv'
    <2>1. reader.pc # "idle"
      BY <1>7 DEF Tree!ReadFile
    <2> QED
      BY <1>7, <2>1, ReadFileKeeps
  <1>8. CASE UNCHANGED treeVars
    <2>1. UNCHANGED <<attempt, tree, publisher, bundles>> /\ reader' = reader
      BY <1>8 DEF treeVars
    <2>2. BundlesInv' /\ DiskInv' /\ PublisherInv'
      BY <2>1, OnlyReads
    <2>3. ReaderInv'
      BY <2>1 DEF TreeInv, ReaderInv, Tree!Named, NamesOne, Published
    <2> QED
      BY <2>2, <2>3 DEF TreeInv
  <1> QED
    BY <1>1, <1>2, <1>3, <1>4, <1>5, <1>6, <1>7, <1>8 DEF Tree!Next

\* A reader that finds no problem has read one payload.
LEMMA CleanRead ==
    ASSUME TreeInv, Tree!Verified
    PROVE  reader.docs \in bundles[reader.area]
  <1> DEFINE m == reader.manifest
  <1>1. /\ BundlesInv /\ ReaderInv /\ reader.pc # "idle" /\ DOMAIN reader.digests = Tree!Named
        /\ \A entry \in m.names : reader.digests[entry.path] = entry.sha
    BY DEF TreeInv, Tree!Verified, Tree!CheckManifest, Tree!CheckIndex
  <1>2. /\ reader.area \in Tree!Areas /\ NamesOne(reader.area, m) /\ m.made \in 0..attempt
        /\ IsMap(reader.docs)
        /\ DOMAIN reader.digests \subseteq DOMAIN reader.docs
        /\ DOMAIN reader.docs \subseteq Tree!Named
    BY <1>1 DEF ReaderInv
  <1>3. PICK docs \in bundles[reader.area] :
           m.names = NamesOf(docs) /\ \A p \in DOMAIN docs : docs[p].made = m.made
    BY <1>2 DEF NamesOne
  <1>4. Tree!Named = DOMAIN docs
    BY <1>3, NamedPaths DEF Tree!Named
  <1>5. ASSUME NEW p \in DOMAIN docs PROVE reader.docs[p] = docs[p]
    <2>1. Tree!Entry(p, docs[p]) \in m.names
      BY <1>3, NamedPaths
    <2>2. reader.digests[p] = docs[p]
      BY <1>1, <2>1 DEF Tree!Entry
    <2>3. /\ Published(p, reader.docs[p])
          /\ m.made <= reader.docs[p].made /\ reader.docs[p].made \in 0..attempt
          /\ reader.docs[p].made <= reader.digests[p].made
      BY <1>1, <1>2, <1>4 DEF ReaderInv
    <2>4. reader.docs[p].made = docs[p].made
      <3>1. docs[p].made = m.made /\ attempt \in Nat
        BY <1>1, <1>3 DEF BundlesInv
      <3>2. reader.docs[p].made <= m.made
        BY <2>2, <2>3, <3>1
      <3> QED
        BY <1>2, <2>3, <3>1, <3>2
    <2>5. p[1] = reader.area
      BY <1>1, <1>2 DEF BundlesInv
    <2>6. Published(p, docs[p])
      BY <2>5 DEF Published
    <2> QED
      BY <1>1, <1>2, <2>3, <2>4, <2>5, <2>6, OneDocument
  <1>6. IsMap(docs) /\ DOMAIN docs = DOMAIN reader.docs
    BY <1>1, <1>2, <1>4 DEF BundlesInv
  <1>7. reader.docs = docs
    BY <1>2, <1>5, <1>6 DEF IsMap
  <1> QED
    BY <1>7
\* The naming files promise what is there.
LEMMA NothingMissing ==
    ASSUME TreeInv
    PROVE  Tree!NothingNamedIsMissing
  BY DEF TreeInv, DiskInv, Tree!NothingNamedIsMissing

\* A step of the composition is one of the tree or leaves it alone.
LEMMA TreeSteps == [NextAlongside]_vars => [Tree!Next]_treeVars
  BY DEF NextAlongside, vars

\* A reader of app/latest that finds no problem has read one publication, not a
\* mix of several, and the naming file never names what is not there, however
\* many attempts are killed between two replacements (publish.publish,
\* verify_published, research.verify_explorer).
THEOREM PublicationsAreWhole == Spec => []PublishedTreeIsWhole
  <1>1. InitAlongside => TreeInv
    BY TreeInitially DEF InitAlongside
  <1>2. TreeInv /\ [NextAlongside]_vars => TreeInv'
    BY TreeSteps, TreeKeeps
  <1>3. TreeInv => PublishedTreeIsWhole
    BY CleanRead, NothingMissing
       DEF PublishedTreeIsWhole, Tree!PublishedTreeIsWhole, Tree!CleanReadIsOnePublication
  <1> QED
    BY <1>1, <1>2, <1>3, PTL DEF Spec

-----------------------------------------------------------------------------
(* The bankroll.  A green run's reading is within its usable age because   *)
(* two jobs, the skew and a tick are: one job because a run may take its   *)
(* whole time between its check of the write and the write it takes for    *)
(* its own; one because the reading in that write may be as old as a job;  *)
(* the tick is the write's way.                                            *)

Job == [pc : {"preflight", "read", "key", "put", "verify", "ended"}, code : Int, started : Nat,
        observed : Nat, since : Nat, tries : Int, at : Nat]

Typed ==
    /\ tick \in Nat /\ tick >= 1
    /\ job \in Job
    /\ secret \in [observed : Nat, updated : Nat]
    /\ puts \subseteq [observed : Nat, sent : Nat]

\* A run works on what it read since it started, and no longer than its job.
JobIsShort ==
    /\ Running => job.started <= tick /\ tick - job.started <= JobTicks
    /\ job.pc \in {"key", "put", "verify"} => job.started <= job.observed
    /\ job.pc \in {"put", "verify"} => job.started <= job.since
    /\ job.at <= tick

\* A write carries a reading of its own job and lands within a tick.
WritesAreFresh ==
    /\ \A p \in puts : p.sent <= tick /\ tick - p.sent <= 1 /\ p.sent - p.observed <= JobTicks
    /\ secret.updated - secret.observed <= JobTicks + 1

GreenIsRecent ==
    ~Running /\ job.code = 0 /\ job.at = tick
      => secret # Absent /\ tick - secret.observed <= 2 * JobTicks + Skew + 1

BankrollInv == Typed /\ JobIsShort /\ WritesAreFresh /\ GreenIsRecent

LEMMA BankrollInitially ==
    ASSUME JobTicks \in Nat, Init PROVE BankrollInv
  <1>1. Typed
    BY DEF Init, Typed, Job, NoJob, Absent
  <1>2. JobIsShort /\ WritesAreFresh /\ GreenIsRecent
    BY DEF Init, JobIsShort, WritesAreFresh, GreenIsRecent, Running, NoJob, Absent
  <1> QED
    BY <1>1, <1>2 DEF BankrollInv

\* A run that goes to a phase, tries a request again or ends.
LEMMA AfterIsOneOf ==
    ASSUME NEW answer, NEW done, NEW next, next = After(answer, done)
    PROVE  next \in {done, Ended(3), Ended(4), [job EXCEPT !.tries = @ + 1]}
  BY DEF After

\* The records a step makes of a run, field by field.
LEMMA NoJobIsAJob ==
    NoJob \in Job /\ NoJob.pc = "ended" /\ NoJob.at = 0
  BY DEF NoJob, Job

LEMMA EndedIsAJob ==
    ASSUME tick \in Nat, NEW code \in Int
    PROVE  /\ Ended(code) \in Job /\ Ended(code).pc = "ended"
           /\ Ended(code).code = code /\ Ended(code).at = tick
  <1>1. Ended(code) \in Job
    BY NoJobIsAJob, Zenon DEF Ended, Job
  <1> QED
    BY <1>1, NoJobIsAJob DEF Ended, Job

LEMMA StartedIsAJob ==
    ASSUME tick \in Nat, NEW run, run = [NoJob EXCEPT !.pc = "preflight", !.started = tick]
    PROVE  run \in Job /\ run.pc = "preflight" /\ run.started = tick /\ run.at = 0
  <1>1. run \in Job
    BY NoJobIsAJob, Zenon DEF Job
  <1> QED
    BY <1>1, NoJobIsAJob DEF Job

LEMMA AtIsAJob ==
    ASSUME job \in Job, NEW pc \in {"read", "key", "put", "verify"}
    PROVE  /\ At(pc) \in Job /\ At(pc).pc = pc
           /\ At(pc).started = job.started /\ At(pc).at = job.at
           /\ At(pc).observed = job.observed /\ At(pc).since = job.since
  <1>0. pc \in {"preflight", "read", "key", "put", "verify", "ended"} /\ 0 \in Int
    OBVIOUS
  <1>1. At(pc) \in Job
    BY <1>0, Zenon DEF At, Job
  <1> QED
    BY <1>1 DEF At, Job

\* What a step of the run that does not say green leaves of it.
QuietStep ==
    /\ job' \in Job
    /\ \/ job'.pc = "ended" /\ job'.code # 0 /\ job'.at <= tick
       \/ /\ Running /\ job'.pc # "ended" /\ job'.started = job.started /\ job'.at = job.at
          /\ job'.pc \in {"key", "put", "verify"} => job.started <= job'.observed
          /\ job'.pc \in {"put", "verify"} => job.started <= job'.since

LEMMA QuietJob ==
    ASSUME BankrollInv, JobTicks \in Nat, UNCHANGED <<tick, secret>>, QuietStep
    PROVE  JobIsShort' /\ GreenIsRecent'
  BY DEF BankrollInv, JobIsShort, GreenIsRecent, Running, QuietStep

LEMMA QuietRun ==
    ASSUME BankrollInv, JobTicks \in Nat, UNCHANGED <<tick, secret, puts>>, QuietStep
    PROVE  BankrollInv'
  <1>1. Typed' /\ WritesAreFresh'
    BY DEF BankrollInv, Typed, WritesAreFresh, QuietStep
  <1> QED
    BY <1>1, QuietJob DEF BankrollInv

\* A run that is refused, tries again or gives up has taken a quiet step.
LEMMA NotDone ==
    ASSUME BankrollInv, Running,
           \/ job' \in {Ended(2), Ended(3), Ended(4), Ended(5)}
           \/ job' = [job EXCEPT !.tries = @ + 1]
    PROVE  QuietStep
  <1>1. CASE job' \in {Ended(2), Ended(3), Ended(4), Ended(5)}
    <2>1. PICK code \in 2..5 : job' = Ended(code)
      BY <1>1
    <2>2. Ended(code) \in Job /\ Ended(code).pc = "ended" /\ Ended(code).code = code
          /\ Ended(code).at = tick
      BY EndedIsAJob DEF BankrollInv, Typed
    <2> QED
      BY <2>1, <2>2 DEF BankrollInv, Typed, QuietStep
  <1>2. CASE job' = [job EXCEPT !.tries = @ + 1]
    <2>1. job' \in Job
      BY <1>2 DEF BankrollInv, Typed, Job
    <2> QED
      BY <1>2, <2>1 DEF BankrollInv, Typed, Job, JobIsShort, QuietStep, Running
  <1> QED
    BY <1>1, <1>2

LEMMA TickStep == ASSUME BankrollInv, JobTicks \in Nat, Tick PROVE BankrollInv'
  <1>1. job' \in {job, Ended(1)} /\ tick' = tick + 1
    BY DEF Tick
  <1>2. Typed'
    <2>1. Ended(1) \in Job
      BY EndedIsAJob DEF BankrollInv, Typed
    <2> QED
      BY <1>1, <2>1 DEF BankrollInv, Typed, Tick
  <1>3. WritesAreFresh'
    BY DEF BankrollInv, Typed, WritesAreFresh, Tick
  <1>4. JobIsShort'
    <2>1. CASE Running /\ tick - job.started >= JobTicks
      BY <2>1 DEF BankrollInv, Typed, JobIsShort, Running, Tick, Ended, NoJob
    <2>2. CASE ~(Running /\ tick - job.started >= JobTicks)
      BY <2>2 DEF BankrollInv, Typed, Job, JobIsShort, Running, Tick
    <2> QED
      BY <2>1, <2>2
  <1>5. GreenIsRecent'
    <2>1. CASE job' = Ended(1)
      BY <2>1 DEF GreenIsRecent, Ended, NoJob
    <2>2. CASE job' = job
      BY <1>1, <2>2 DEF BankrollInv, Typed, Job, JobIsShort, GreenIsRecent
    <2> QED
      BY <1>1, <2>1, <2>2
  <1> QED
    BY <1>2, <1>3, <1>4, <1>5 DEF BankrollInv

\* A write that lands is of this tick or the last, and of a reading as fresh as
\* a job is long.
LEMMA LandStep == ASSUME BankrollInv, JobTicks \in Nat, Skew \in Nat, NEW p \in puts, Land(p) PROVE BankrollInv'
  <1>1. p \in [observed : Nat, sent : Nat]
    BY DEF BankrollInv, Typed
  <1>2. Typed'
    BY <1>1 DEF BankrollInv, Typed, Land
  <1>3. tick - p.sent <= 1 /\ p.sent - p.observed <= JobTicks
    BY DEF BankrollInv, WritesAreFresh
  <1>4. secret'.updated = tick /\ secret'.observed = p.observed
    BY DEF Land
  <1>5. WritesAreFresh'
    BY <1>1, <1>3, <1>4 DEF BankrollInv, Typed, WritesAreFresh, Land
  <1>6. JobIsShort'
    BY DEF BankrollInv, JobIsShort, Running, Land
  <1>7. GreenIsRecent'
    <2>1. secret' # Absent /\ tick - secret'.observed <= JobTicks + 1
      BY <1>1, <1>3, <1>4 DEF BankrollInv, Typed, Absent
    <2> QED
      BY <1>1, <1>4, <2>1 DEF BankrollInv, Typed, GreenIsRecent, Running, Land
  <1> QED
    BY <1>2, <1>5, <1>6, <1>7 DEF BankrollInv

LEMMA LoseStep == ASSUME BankrollInv, NEW p \in puts, Lose(p) PROVE BankrollInv'
  <1>1. Typed' /\ WritesAreFresh'
    BY DEF BankrollInv, Typed, WritesAreFresh, Lose
  <1>2. JobIsShort' /\ GreenIsRecent'
    BY DEF BankrollInv, JobIsShort, GreenIsRecent, Running, Lose
  <1> QED
    BY <1>1, <1>2 DEF BankrollInv

LEMMA StartStep == ASSUME BankrollInv, JobTicks \in Nat, Start PROVE BankrollInv'
  <1>0. job' \in Job /\ job'.pc = "preflight" /\ job'.started = tick /\ job'.at = 0
    BY StartedIsAJob DEF BankrollInv, Typed, Start
  <1>1. Typed' /\ WritesAreFresh'
    BY <1>0 DEF BankrollInv, Typed, WritesAreFresh, Start
  <1>2. JobIsShort' /\ GreenIsRecent'
    BY <1>0 DEF BankrollInv, Typed, JobIsShort, GreenIsRecent, Running, Start
  <1> QED
    BY <1>1, <1>2 DEF BankrollInv

LEMMA PreflightStep == ASSUME BankrollInv, JobTicks \in Nat, Preflight PROVE BankrollInv'
  <1>1. Running
    BY DEF Preflight, Running
  <1>2. PICK answer \in Answers : job' = After(answer, At("read"))
    BY DEF Preflight
  <1>3. job' \in {At("read"), Ended(3), Ended(4), [job EXCEPT !.tries = @ + 1]}
    BY <1>2, AfterIsOneOf
  <1>4. ASSUME job' = At("read") PROVE QuietStep
    BY <1>1, <1>4, AtIsAJob DEF BankrollInv, Typed, QuietStep
  <1>5. QuietStep
    BY <1>1, <1>3, <1>4, NotDone
  <1> QED
    BY <1>5, QuietRun DEF Preflight

LEMMA ReadBalanceStep == ASSUME BankrollInv, JobTicks \in Nat, ReadBalance PROVE BankrollInv'
  <1>1. Running
    BY DEF ReadBalance, Running
  <1>2. job' \in {[At("key") EXCEPT !.observed = tick], Ended(4)}
    BY DEF ReadBalance
  <1>3. ASSUME job' = [At("key") EXCEPT !.observed = tick] PROVE QuietStep
    <2>1. At("key") \in Job /\ At("key").pc = "key" /\ At("key").started = job.started
          /\ At("key").at = job.at
      BY AtIsAJob DEF BankrollInv, Typed
    <2>2. job' \in Job /\ job'.pc = "key" /\ job'.started = job.started /\ job'.at = job.at
          /\ job'.observed = tick
      BY <1>3, <2>1 DEF BankrollInv, Typed, Job
    <2> QED
      BY <1>1, <2>2 DEF BankrollInv, JobIsShort, QuietStep
  <1>4. QuietStep
    BY <1>1, <1>2, <1>3, NotDone
  <1> QED
    BY <1>4, QuietRun DEF ReadBalance

LEMMA SealingKeyStep == ASSUME BankrollInv, JobTicks \in Nat, SealingKey PROVE BankrollInv'
  <1> DEFINE done == [At("put") EXCEPT !.since = tick]
  <1>1. Running
    BY DEF SealingKey, Running
  <1>2. PICK answer \in Answers :
          job' = IF job.tries = 0 /\ ~Fresh(job.observed) THEN Ended(2) ELSE After(answer, done)
    BY DEF SealingKey
  <1>3. job' \in {done, Ended(2), Ended(3), Ended(4), [job EXCEPT !.tries = @ + 1]}
    <2> HIDE DEF done
    <2> QED
      BY <1>2, AfterIsOneOf
  <1>4. ASSUME job' = done PROVE QuietStep
    <2>1. At("put") \in Job /\ At("put").pc = "put" /\ At("put").started = job.started
          /\ At("put").at = job.at /\ At("put").observed = job.observed
      BY AtIsAJob DEF BankrollInv, Typed
    <2>2. job' \in Job /\ job'.pc = "put" /\ job'.started = job.started /\ job'.at = job.at
          /\ job'.observed = job.observed /\ job'.since = tick
      BY <1>4, <2>1 DEF BankrollInv, Typed, Job
    <2>3. job.started <= tick /\ job.started <= job.observed
      BY <1>1 DEF BankrollInv, JobIsShort, SealingKey
    <2> QED
      BY <1>1, <2>2, <2>3 DEF QuietStep
  <1>5. QuietStep
    BY <1>1, <1>3, <1>4, NotDone
  <1> QED
    BY <1>5, QuietRun DEF SealingKey

\* What is sent was read by this job, so it is no older than the job.
LEMMA PutStep == ASSUME BankrollInv, JobTicks \in Nat, Put PROVE BankrollInv'
  <1>1. Running /\ job.pc = "put"
    BY DEF Put, Running
  <1>2. PICK answer \in Answers : job' = After(answer, At("verify"))
    BY DEF Put
  <1>3. job' \in {At("verify"), Ended(3), Ended(4), [job EXCEPT !.tries = @ + 1]}
    BY <1>2, AfterIsOneOf
  <1>4. ASSUME job' = At("verify") PROVE QuietStep
    <2>1. job.started <= job.observed /\ job.started <= job.since
      BY <1>1 DEF BankrollInv, JobIsShort
    <2> QED
      BY <1>1, <1>4, <2>1, AtIsAJob DEF BankrollInv, Typed, QuietStep
  <1>5. QuietStep
    BY <1>1, <1>3, <1>4, NotDone
  <1>6. \A p \in puts' : p \in puts \/ p = [observed |-> job.observed, sent |-> tick]
    BY DEF Put
  <1>7. tick - job.observed <= JobTicks
    BY <1>1 DEF BankrollInv, Typed, Job, JobIsShort
  <1>8. Typed'
    BY <1>5, <1>6 DEF BankrollInv, Typed, Job, QuietStep, Put
  <1>9. WritesAreFresh'
    <2>1. \A p \in puts' : p.sent <= tick /\ tick - p.sent <= 1 /\ p.sent - p.observed <= JobTicks
      BY <1>6, <1>7 DEF BankrollInv, Typed, Job, WritesAreFresh
    <2> QED
      BY <2>1 DEF BankrollInv, WritesAreFresh, Put
  <1> QED
    BY <1>5, <1>8, <1>9, QuietJob DEF BankrollInv, Put

\* The write taken for the run's own was stamped after the run started, and
\* carries a reading at most a job and a tick older than its stamp.
LEMMA VerifyLandedStep == ASSUME BankrollInv, JobTicks \in Nat, Skew \in Nat, VerifyLanded PROVE BankrollInv'
  <1> DEFINE done == IF secret # Absent /\ Written(job.since) THEN Ended(0) ELSE Ended(5)
  <1>1. Running /\ job.pc = "verify"
    BY DEF VerifyLanded, Running
  <1>2. PICK answer \in Answers :
          job' = IF answer = "denied" THEN Ended(5) ELSE After(answer, done)
    BY DEF VerifyLanded
  <1>3. job' \in {done, Ended(3), Ended(4), Ended(5), [job EXCEPT !.tries = @ + 1]}
    <2> HIDE DEF done
    <2> QED
      BY <1>2, AfterIsOneOf
  <1>4. CASE job' \in {Ended(3), Ended(4), Ended(5), [job EXCEPT !.tries = @ + 1]}
    <2>1. QuietStep
      BY <1>1, <1>4, NotDone
    <2> QED
      BY <2>1, QuietRun DEF VerifyLanded
  <1>5. CASE job' = Ended(0) /\ secret # Absent /\ Written(job.since)
    <2>0. job' \in Job /\ job'.pc = "ended" /\ job'.at = tick
      BY <1>5, EndedIsAJob DEF BankrollInv, Typed
    <2>1. Typed' /\ WritesAreFresh'
      BY <2>0 DEF BankrollInv, Typed, WritesAreFresh, VerifyLanded
    <2>2. JobIsShort'
      BY <2>0 DEF BankrollInv, Typed, JobIsShort, Running, VerifyLanded
    <2>3. tick - job.started <= JobTicks /\ job.started <= job.since
      BY <1>1 DEF BankrollInv, JobIsShort
    <2>4. secret.updated + Skew >= job.since /\ secret.updated - secret.observed <= JobTicks + 1
      BY <1>5 DEF BankrollInv, WritesAreFresh, Written
    <2>5. tick - secret.observed <= 2 * JobTicks + Skew + 1
      BY <2>3, <2>4 DEF BankrollInv, Typed, Job
    <2>6. GreenIsRecent'
      BY <1>5, <2>5 DEF GreenIsRecent, VerifyLanded
    <2> QED
      BY <2>1, <2>2, <2>6 DEF BankrollInv
  <1> QED
    BY <1>3, <1>4, <1>5

LEMMA BankrollKeeps ==
    ASSUME BankrollInv, JobTicks \in Nat, Skew \in Nat, [Next]_bankrollVars PROVE BankrollInv'
  <1>1. CASE Rescope
    BY <1>1 DEF BankrollInv, Typed, JobIsShort, WritesAreFresh, GreenIsRecent, Running, Rescope
  <1>2. CASE UNCHANGED bankrollVars
    BY <1>2 DEF BankrollInv, Typed, JobIsShort, WritesAreFresh, GreenIsRecent, Running, bankrollVars
  <1> QED
    BY <1>1, <1>2, TickStep, LandStep, LoseStep, StartStep, PreflightStep, ReadBalanceStep,
       SealingKeyStep, PutStep, VerifyLandedStep DEF Next

\* A green run leaves the destination a reading that is not over age, whichever
\* run wrote it and whatever became of this run's own write, when two jobs, the
\* tolerated skew and the write's own way fit into the usable age
\* (timeout-minutes, FUTURE_SKEW_TOLERANCE_MINUTES, DESTINATION_MAX_AGE_MINUTES).
THEOREM GreenIsUsable == Spec => []GreenMeansUsable
  <1> USE JobsFitTheWindow
  <1>1. InitAlongside => BankrollInv
    BY BankrollInitially DEF InitAlongside
  <1>2. BankrollInv /\ [NextAlongside]_vars => BankrollInv'
    <2>1. [NextAlongside]_vars => [Next]_bankrollVars
      BY DEF NextAlongside, vars
    <2> QED
      BY <2>1, BankrollKeeps
  <1>3. BankrollInv => GreenMeansUsable
    BY DEF BankrollInv, Typed, GreenIsRecent, GreenMeansUsable
  <1> QED
    BY <1>1, <1>2, <1>3, PTL DEF Spec

-----------------------------------------------------------------------------
(* The evidence ledger.  The execution row on file never changes, so every *)
(* link is made from the same first fill; the decisions around it only     *)
(* grow in number.  A LINKED row is made when all of them bear one         *)
(* recommendation, so a later one bears that of an earlier one.            *)

LinkedIn(rows) == {q \in rows : q.kind = "LINK" /\ q.status = "LINKED"}

DecisionsInv ==
    /\ \A d \in decisions : d.at \in Int
    /\ \A d, e \in decisions : d.ref = e.ref => d = e

\* A ledger whose links are those of its execution to decisions there are.
Linked(rows) ==
    /\ \A r \in rows : Ev!ValidRow(r)
    /\ \A r, q \in rows : Ev!RowKey(r) = Ev!RowKey(q) => r = q
    /\ \A r \in LinkedIn(rows) :
         \E e \in rows : e.kind = "EXECUTION" /\ \E d \in Ev!Hits(e.first) : d.ref = r.ref
    /\ \A r, q \in LinkedIn(rows) : r.ref = q.ref

EvidenceInv == DecisionsInv /\ Linked(evidence)

\* A LINKED row is to a decision that bears the one recommendation of all.
LEMMA LinkIsAHit ==
    ASSUME DecisionsInv, NEW e, Ev!LinkRow(e).status = "LINKED"
    PROVE  /\ \E d \in Ev!Hits(e.first) : d.ref = Ev!LinkRow(e).ref
           /\ \A d \in Ev!Hits(e.first) : d.ref = Ev!LinkRow(e).ref
  <1> DEFINE hits == Ev!Hits(e.first)
             pick == Ev!Latest(hits)
  <1>1. Ev!LinkStatus(hits) = "LINKED"
    BY DEF Ev!LinkRow
  <1>2. Ev!LinkRow(e).ref = pick.ref
    BY <1>1 DEF Ev!LinkRow
  <1>3. hits # {} /\ \A c, d \in hits : c.ref = d.ref
    BY <1>1 DEF Ev!LinkStatus
  <1>4. hits \subseteq decisions
    BY DEF Ev!Hits
  <1> HIDE DEF hits
  <1>5. \A c, d \in hits : c = d
    BY <1>3, <1>4 DEF DecisionsInv
  <1>6. PICK d \in hits : TRUE
    BY <1>3
  <1>7. pick \in hits
    <2>1. \A c \in hits : c.at <= d.at
      BY <1>4, <1>5 DEF DecisionsInv
    <2> QED
      BY <1>6, <2>1 DEF Ev!Latest
  <1> HIDE DEF pick
  <1>8. \A c \in hits : c.ref = pick.ref
    BY <1>3, <1>7
  <1> QED
    BY <1>2, <1>7, <1>8 DEF hits

LEMMA RowFiled ==
    ASSUME NEW rows, NEW row, Linked(rows), row.kind # "LINK" PROVE Linked(Ev!Filed(rows, row))
  <1>1. LinkedIn(Ev!Filed(rows, row)) = LinkedIn(rows)
    BY DEF LinkedIn, Ev!Filed
  <1>2. rows \subseteq Ev!Filed(rows, row)
    BY DEF Ev!Filed
  <1>3. \A r \in Ev!Filed(rows, row) : Ev!ValidRow(r)
    BY DEF Linked, Ev!Filed
  <1>4. \A r, q \in Ev!Filed(rows, row) : Ev!RowKey(r) = Ev!RowKey(q) => r = q
    BY DEF Linked, Ev!Filed
  <1> QED
    BY <1>1, <1>2, <1>3, <1>4 DEF Linked

LEMMA LinkFiled ==
    ASSUME DecisionsInv, NEW rows, Linked(rows), NEW e \in rows, e.kind = "EXECUTION"
    PROVE  Linked(Ev!Filed(rows, Ev!LinkRow(e)))
  <1> DEFINE row == Ev!LinkRow(e)
             filed == Ev!Filed(rows, row)
  <1>1. filed = rows \/ filed = rows \cup {row}
    BY DEF Ev!Filed
  <1>2. \A r \in filed : Ev!ValidRow(r)
    BY DEF Linked, Ev!Filed
  <1>3. \A r, q \in filed : Ev!RowKey(r) = Ev!RowKey(q) => r = q
    BY DEF Linked, Ev!Filed
  <1>4. row.status = "LINKED" =>
          /\ \E d \in Ev!Hits(e.first) : d.ref = row.ref
          /\ \A d \in Ev!Hits(e.first) : d.ref = row.ref
    BY LinkIsAHit
  <1> HIDE DEF row
  <1>5. \A r \in LinkedIn(rows) : \E d \in Ev!Hits(e.first) : d.ref = r.ref
    <2>1. \A x \in rows : x.kind = "EXECUTION" => x = e
      BY DEF Linked, Ev!RowKey
    <2> QED
      BY <2>1 DEF Linked
  <1>6. \A r \in LinkedIn(filed) : \E d \in Ev!Hits(e.first) : d.ref = r.ref
    BY <1>1, <1>4, <1>5 DEF LinkedIn
  <1>7. \A r, q \in LinkedIn(filed) : r.ref = q.ref
    <2>1. \A r \in LinkedIn(filed) : r \in LinkedIn(rows) \/ (r = row /\ row.status = "LINKED")
      BY <1>1 DEF LinkedIn
    <2>2. row.status = "LINKED" => \A r \in LinkedIn(rows) : r.ref = row.ref
      BY <1>4, <1>5
    <2> HIDE DEF filed
    <2> QED
      BY <2>1, <2>2 DEF Linked
  <1>8. e \in filed
    BY <1>1
  <1> HIDE DEF filed
  <1>9. Linked(filed)
    BY <1>2, <1>3, <1>6, <1>7, <1>8 DEF Linked
  <1> QED
    BY <1>9 DEF filed, row

LEMMA MoreDecisions ==
    ASSUME EvidenceInv, decisions \subseteq decisions', evidence' = evidence PROVE Linked(evidence)'
  <1>1. \A t : Ev!Hits(t) \subseteq Ev!Hits(t)'
    BY DEF Ev!Hits
  <1>2. \A r \in LinkedIn(evidence) :
          \E e \in evidence : e.kind = "EXECUTION" /\ \E d \in Ev!Hits(e.first)' : d.ref = r.ref
    BY <1>1 DEF EvidenceInv, Linked
  <1> QED
    BY <1>2 DEF EvidenceInv, Linked, LinkedIn, Ev!ValidRow, Ev!RowKey, Ev!Producers

LEMMA EvidenceKeeps ==
    ASSUME EvidenceInv, MaxTime \in Nat, [Ev!Next]_evVars PROVE EvidenceInv'
  <1>1. ASSUME UNCHANGED <<decisions, evidence>> PROVE EvidenceInv'
    <2>1. Linked(evidence)'
      BY <1>1, MoreDecisions
    <2> QED
      BY <1>1, <2>1 DEF EvidenceInv, DecisionsInv
  <1>2. ASSUME NEW ref \in Refs, NEW at \in 1..MaxTime, Ev!Decide(ref, at) PROVE EvidenceInv'
    <2> DEFINE new == [ref |-> ref, at |-> at]
    <2>1. decisions' = decisions \cup {new} /\ evidence' = evidence /\ \A d \in decisions : d.ref # ref
      BY <1>2 DEF Ev!Decide
    <2>2. Linked(evidence)'
      BY <2>1, MoreDecisions
    <2>3. DecisionsInv'
      BY <2>1 DEF EvidenceInv, DecisionsInv
    <2> QED
      BY <2>2, <2>3 DEF EvidenceInv
  <1>3. ASSUME UNCHANGED decisions, NEW rows, evidence' = rows, Linked(rows) PROVE EvidenceInv'
    <2>1. \A t : Ev!Hits(t)' = Ev!Hits(t)
      BY <1>3 DEF Ev!Hits
    <2>2. /\ \A r : Ev!ValidRow(r)' <=> Ev!ValidRow(r)
          /\ \A r : Ev!RowKey(r)' = Ev!RowKey(r)
      BY DEF Ev!ValidRow, Ev!RowKey, Ev!Producers
    <2>3. Linked(evidence)'
      BY <1>3, <2>1, <2>2 DEF Linked, LinkedIn
    <2> QED
      BY <1>3, <2>3 DEF EvidenceInv, DecisionsInv
  <1>4. ASSUME NEW cutoffs, NEW named, NEW withClose, Ev!ImportFromRouter(cutoffs, named, withClose)
        PROVE  EvidenceInv'
    <2> DEFINE withRow == Ev!Filed(evidence, Ev!ExecutionRow)
               closed == Ev!Filed(withRow, Ev!CloseRow(cutoffs, named))
    <2>1. Linked(withRow)
      <3>1. Ev!ExecutionRow.kind # "LINK"
        BY DEF Ev!ExecutionRow
      <3> QED
        BY <3>1, RowFiled DEF EvidenceInv
    <2>2. Linked(closed)
      <3>1. Ev!CloseRow(cutoffs, named).kind # "LINK"
        BY DEF Ev!CloseRow
      <3> HIDE DEF withRow
      <3> QED
        BY <3>1, <2>1, RowFiled
    <2>3. UNCHANGED decisions /\ (evidence' = withRow \/ evidence' = closed)
      BY <1>4 DEF Ev!ImportFromRouter
    <2> QED
      BY <2>1, <2>2, <2>3, <1>3
  <1>5. ASSUME Ev!ImportLink PROVE EvidenceInv'
    <2>1. PICK e \in evidence : e.kind = "EXECUTION" /\ evidence' = Ev!Filed(evidence, Ev!LinkRow(e))
      BY <1>5 DEF Ev!ImportLink
    <2>2. Linked(Ev!Filed(evidence, Ev!LinkRow(e)))
      BY <2>1, LinkFiled DEF EvidenceInv
    <2>3. UNCHANGED decisions
      BY <1>5 DEF Ev!ImportLink
    <2> QED
      BY <2>1, <2>2, <2>3, <1>3
  <1>6. CASE UNCHANGED evVars
    BY <1>6, <1>1 DEF evVars
  <1>7. CASE Ev!Next
    BY <1>7, <1>1, <1>2, <1>4, <1>5 DEF Ev!Next, Ev!Minute, Ev!Fill, Ev!Archive
  <1> QED
    BY <1>6, <1>7

\* Whatever arrives late and however often the rows are made again, the ledger
\* of a wager validates and asserts at most one recommendation (link_recommendation,
\* import_rows).
THEOREM EvidenceAssertsOneRecommendation == Spec => []OneRecommendationPerWager
  <1> USE BoundsAreNumbers
  <1>1. InitAlongside => EvidenceInv
    BY DEF InitAlongside, Ev!Init, EvidenceInv, DecisionsInv, Linked, LinkedIn
  <1>2. EvidenceInv /\ [NextAlongside]_vars => EvidenceInv'
    <2>1. [NextAlongside]_vars => [Ev!Next]_evVars
      BY DEF NextAlongside, vars
    <2> QED
      BY <2>1, EvidenceKeeps
  <1>3. EvidenceInv => OneRecommendationPerWager
    BY DEF EvidenceInv, Linked, LinkedIn, OneRecommendationPerWager, Ev!OneRecommendationPerWager,
           Ev!LedgerValidates
  <1> QED
    BY <1>1, <1>2, <1>3, PTL DEF Spec

-----------------------------------------------------------------------------
(* The client's walks.  A page and its cursor split what the route serves: *)
(* what is newer than the cursor has been yielded, and a walk that ends    *)
(* without a cursor has yielded the rest.  A fill that leaves the live     *)
(* route is met in the archive, which is walked after it.                  *)

IsStats(s) ==
    s = [pages |-> s.pages, rows |-> s.rows, exhausted |-> s.exhausted, truncated |-> s.truncated]

ClientRecords ==
    /\ exchange = [live |-> exchange.live, archive |-> exchange.archive,
                   unreadable |-> exchange.unreadable, windowed |-> exchange.windowed,
                   heeds |-> exchange.heeds]
    /\ walk = [mode |-> walk.mode, route |-> walk.route, cursor |-> walk.cursor,
               seen |-> walk.seen, left |-> walk.left, tries |-> walk.tries]
    /\ claims = [live |-> claims.live, archive |-> claims.archive,
                 archiveFailed |-> claims.archiveFailed, raised |-> claims.raised,
                 probe |-> claims.probe]
    /\ IsStats(claims.live) /\ IsStats(claims.archive)
    /\ walk.mode \in Reads!Modes /\ walk.route \in {"live", "archive", "probe", "done"}
    /\ walk.cursor \in Nat /\ walk.left \in Int

\* The rows are numbered by age, and the archive holds the oldest.
RowsInv ==
    /\ \E n \in 0..MaxRows : Reads!Rows = 1..n
    /\ \A a \in exchange.archive, l \in exchange.live : a < l
    /\ exchange.archive # {} => walk.mode \in {"history", "sample"}
    /\ exchange.windowed => walk.mode = "settlements"
    /\ began \subseteq Reads!Rows /\ yielded \subseteq Reads!Rows

Ahead(r) == walk.cursor = Reads!Nothing \/ r < walk.cursor

WalkInv ==
    /\ walk.mode = "history" => walk.left = Reads!Unbounded
    /\ walk.route = "archive" => walk.mode = "history"
    /\ walk.route = "live" /\ walk.mode # "markets" =>
         \A r \in began \cap Reads!Served("live") : r \in yielded \/ Ahead(r)
    /\ walk.route = "archive" =>
         /\ began \cap exchange.live \subseteq yielded
         /\ \A r \in began \cap exchange.archive : r \in yielded \/ Ahead(r)

ClaimsInv ==
    /\ claims.live.exhausted /\ walk.mode # "history" =>
         began \cap Reads!Served("live") \subseteq yielded
    /\ claims.archive.exhausted => began \subseteq yielded

ProbeInv ==
    /\ walk.route = "probe" => walk.mode = "settlements"
    /\ claims.probe.answered => walk.route = "done" /\ walk.mode = "settlements"
    /\ claims.probe.answered /\ exchange.heeds /\ Reads!Floor # Reads!Nothing =>
         \A r \in Reads!Rows : r >= Reads!Floor

ClientInv == ClientRecords /\ RowsInv /\ WalkInv /\ ClaimsInv /\ ProbeInv

LEMMA ReadsCount == \A S : Reads!Cardinality(S) = Cardinality(S)
  BY DEF Reads!Cardinality, Cardinality

\* A set of numbers has a least and a bounded one a greatest.
LEMMA SomeIsLeast ==
    ASSUME NEW T, T \subseteq Nat, T # {} PROVE \E n \in T : \A i \in T : n <= i
  <1>1. PICK n \in T : \A i \in T : ~(<<i, n>> \in OpToRel(<, Nat))
    BY NatLessThanWellFounded, WFMin
  <1>2. \A i \in T : i < n => <<i, n>> \in OpToRel(<, Nat)
    BY DEF OpToRel
  <1>3. \A i \in T : i \in Nat /\ n \in Nat /\ ~(i < n)
    BY <1>1, <1>2
  <1> QED
    BY <1>3

LEMMA SomeIsGreatest ==
    ASSUME NEW N \in Nat, NEW T, T \subseteq 1..N, T # {} PROVE \E n \in T : \A i \in T : i <= n
  <1> DEFINE Left == {N - i : i \in T}
  <1>0. \A i \in T : i \in Nat /\ 1 <= i /\ i <= N
    OBVIOUS
  <1>1. Left \subseteq Nat /\ Left # {}
    BY <1>0
  <1>2. PICK m \in Left : \A k \in Left : m <= k
    <2> HIDE DEF Left
    <2> QED
      BY <1>1, SomeIsLeast
  <1>3. PICK n \in T : m = N - n
    OBVIOUS
  <1>4. \A i \in T : N - n <= N - i
    BY <1>2, <1>3
  <1> QED
    BY <1>0, <1>3, <1>4

LEMMA LeastRow ==
    ASSUME NEW T, T \subseteq Nat, T # {}
    PROVE  Reads!Min(T) \in T /\ \A i \in T : Reads!Min(T) <= i
  BY SomeIsLeast DEF Reads!Min

LEMMA GreatestRow ==
    ASSUME NEW N \in Nat, NEW T, T \subseteq 1..N, T # {}
    PROVE  Reads!Max(T) \in T /\ \A i \in T : i <= Reads!Max(T)
  BY SomeIsGreatest DEF Reads!Max

\* The newest of a set of rows, and no more than some number of them.
Newest(rows, n) == {r \in rows : Reads!Cardinality({o \in rows : o >= r}) <= n}

LEMMA NewestAreUpward ==
    ASSUME NEW N \in Nat, NEW rows, rows \subseteq 1..N, NEW n \in Nat,
           NEW r \in Newest(rows, n), NEW s \in rows, s >= r
    PROVE  s \in Newest(rows, n)
  <1> DEFINE R == {o \in rows : o >= r}
             S == {o \in rows : o >= s}
  <1>1. S \subseteq R /\ R \subseteq 1..N
    <2>1. \A o \in rows : o \in Int
      OBVIOUS
    <2>2. r \in Int /\ s \in Int
      BY <2>1 DEF Newest
    <2>3. \A o \in rows : o >= s => o >= r
      BY <2>1, <2>2
    <2> QED
      BY <2>3
  <1>2. IsFiniteSet(1..N)
    BY FS_Interval
  <1>3. Cardinality(S) <= Cardinality(R) /\ Cardinality(S) \in Nat /\ Cardinality(R) \in Nat
    <2> HIDE DEF R, S
    <2> QED
      BY <1>1, <1>2, FS_Subset, FS_CardinalityType
  <1>4. Cardinality(R) <= n
    BY ReadsCount DEF Newest
  <1> HIDE DEF R
  <1>5. Cardinality(S) <= n
    BY <1>3, <1>4
  <1> QED
    BY <1>5, ReadsCount DEF Newest

LEMMA NewestAreSome ==
    ASSUME NEW N \in Nat, NEW rows, rows \subseteq 1..N, rows # {}, NEW n \in Nat, n >= 1
    PROVE  Newest(rows, n) # {}
  <1>1. PICK m \in rows : \A i \in rows : i <= m
    BY SomeIsGreatest
  <1>2. \A o \in rows : o \in Int
    OBVIOUS
  <1>3. m \in rows /\ m >= m /\ \A o \in rows : o >= m => o = m
    BY ONLY <1>1, <1>2, m \in rows
  <1>4. {o \in rows : o >= m} = {m}
    BY ONLY <1>3
  <1>5. Reads!Cardinality({o \in rows : o >= m}) = 1
    BY <1>4, ReadsCount, FS_Singleton
  <1> QED
    BY <1>5 DEF Newest

\* A page and its cursor leave nothing between them, and without a cursor
\* nothing is left.
LEMMA HonestPage ==
    ASSUME NEW N \in Nat, NEW route, Reads!Served(route) \subseteq 1..N,
           NEW cursor \in Nat, NEW limit \in Int,
           NEW page \in Reads!HonestPages(route, cursor, limit)
    PROVE  /\ page = Reads!Page(page.rows, page.cursor) /\ page.cursor \in Nat
           /\ page.rows \subseteq Reads!Served(route)
           /\ \A r \in Reads!Served(route) :
                cursor = Reads!Nothing \/ r < cursor =>
                  r \in page.rows \/ (page.cursor # Reads!Nothing /\ r < page.cursor)
  <1> DEFINE older == {r \in Reads!Served(route) : cursor = Reads!Nothing \/ r < cursor}
  <1>1. CASE older = {}
    <2>1. page = Reads!Page({}, Reads!Nothing)
      BY <1>1 DEF Reads!HonestPages
    <2> QED
      BY <1>1, <2>1 DEF Reads!Page, Reads!Nothing
  <1>2. CASE older # {}
    <2>1. older \subseteq 1..N /\ older \subseteq Nat
      OBVIOUS
    <2>2. PICK n \in 1..limit :
            \/ page = Reads!Page(Newest(older, n),
                                 IF Newest(older, n) = older THEN Reads!Nothing
                                 ELSE Reads!Min(Newest(older, n)))
            \/ page = Reads!Page(Newest(older, n), Reads!Min(Newest(older, n)))
      BY <1>2 DEF Reads!HonestPages, Newest
    <2> DEFINE rows == Newest(older, n)
    <2>3. rows \subseteq older
      BY DEF Newest
    <2>0. n \in Nat /\ n >= 1
      OBVIOUS
    <2> HIDE DEF older
    <2>4. rows # {}
      BY <1>2, <2>0, <2>1, NewestAreSome
    <2>5. \A r \in rows, s \in older : s >= r => s \in rows
      BY <2>0, <2>1, NewestAreUpward
    <2> HIDE DEF rows
    <2>6. rows \subseteq Nat
      BY <2>1, <2>3
    <2>7. Reads!Min(rows) \in rows
      BY <2>4, <2>6, LeastRow
    <2>8. Reads!Min(rows) \in 1..N
      BY <2>1, <2>3, <2>7
    <2>9. \A r \in older : r \in rows \/ r < Reads!Min(rows)
      BY <2>1, <2>5, <2>7, <2>8
    <2>10. page = Reads!Page(rows, page.cursor) /\ page.rows = rows
      BY <2>2 DEF Reads!Page, rows
    <2>11. page.cursor = Reads!Min(rows) \/ (page.cursor = Reads!Nothing /\ rows = older)
      BY <2>2 DEF Reads!Page, rows
    <2>12. page.cursor \in Nat
      BY <2>8, <2>11 DEF Reads!Nothing
    <2>13. \A r \in older : r \in rows \/ (page.cursor # Reads!Nothing /\ r < page.cursor)
      BY <2>8, <2>9, <2>11 DEF Reads!Nothing
    <2>14. rows \subseteq Reads!Served(route)
      BY <2>3 DEF older
    <2> QED
      BY <2>10, <2>12, <2>13, <2>14 DEF older
  <1> QED
    BY <1>1, <1>2

\* An answer with a list has rows of the page only; one that does not raise and
\* is within the budget is the page itself, but for a list of markets.
LEMMA WhatIsAnswered ==
    ASSUME NEW page, page = Reads!Page(page.rows, page.cursor), page.cursor \in Nat,
           NEW a \in {page} \cup Reads!Faults(page, walk.seen), Reads!RequireList(a)
    PROVE  /\ a.rows = page.rows \/ a.rows = {}
           /\ ~Reads!Raises(a) /\ ~Reads!OutOfBudget(a) => a.cursor \in Nat
           /\ ~Reads!Raises(a) /\ ~Reads!OutOfBudget(a) /\ walk.mode # "markets" => a = page
  <1>1. CASE a = page
    BY <1>1
  <1>2. CASE \E s \in {"transport", "retryable", "refused"} : a = Reads!NoRows(s, "none", FALSE)
    BY <1>2 DEF Reads!RequireList, Reads!NoRows, Reads!Page
  <1>3. CASE a \in {Reads!NoRows("ok", "broken", FALSE), Reads!NoRows("ok", "object", FALSE)}
    BY <1>3 DEF Reads!RequireList, Reads!NoRows, Reads!Page
  <1>4. CASE a = [page EXCEPT !.odd = TRUE]
    BY <1>4 DEF Reads!Raises, Reads!Page
  <1>5. CASE a = [page EXCEPT !.cursor = Reads!NotText]
    BY <1>5 DEF Reads!Raises, Reads!Page, Reads!CursorFault
  <1>6. CASE a = Reads!Page({}, 1)
    BY <1>6 DEF Reads!Raises, Reads!Page, Reads!Nothing
  <1>7. CASE \E c \in walk.seen : a = [page EXCEPT !.cursor = c]
    BY <1>7 DEF Reads!Raises, Reads!Page, Reads!CursorFault
  <1> QED
    BY <1>1, <1>2, <1>3, <1>4, <1>5, <1>6, <1>7 DEF Reads!Faults

\* Within the budget every row is yielded.
LEMMA AllWithin ==
    ASSUME NEW a, NEW N \in Nat, a.rows \subseteq 1..N, walk.left \in Int, ~Reads!OutOfBudget(a)
    PROVE  Reads!Within(a.rows) = a.rows
  <1>1. CASE walk.left = Reads!Unbounded
    BY <1>1 DEF Reads!Within
  <1>2. CASE walk.left # Reads!Unbounded
    <2>0. IsFiniteSet(1..N)
      BY FS_Interval
    <2>1. IsFiniteSet(a.rows) /\ Cardinality(a.rows) \in Nat
      BY <2>0, FS_Subset, FS_CardinalityType
    <2>2. Cardinality(a.rows) <= walk.left
      BY <1>2, <2>1, ReadsCount DEF Reads!OutOfBudget
    <2>3. ASSUME NEW r \in a.rows PROVE Reads!Cardinality({o \in a.rows : o >= r}) <= walk.left
      <3> DEFINE S == {o \in a.rows : o >= r}
      <3>1. S \in SUBSET a.rows
        OBVIOUS
      <3> HIDE DEF S
      <3>2. Cardinality(S) <= Cardinality(a.rows) /\ Cardinality(S) \in Nat
        BY <2>1, <3>1, FS_Subset, FS_CardinalityType
      <3>3. Reads!Cardinality(S) <= walk.left
        BY <2>1, <2>2, <3>2, ReadsCount
      <3> QED
        BY <3>3 DEF S
    <2> QED
      BY <1>2, <2>3 DEF Reads!Within
  <1> QED
    BY <1>1, <1>2

LEMMA YieldsOfThePage ==
    ASSUME NEW a PROVE Reads!Within(a.rows) \subseteq a.rows
  BY DEF Reads!Within

LEMMA CountedStats ==
    ASSUME NEW s, IsStats(s), NEW a
    PROVE  /\ IsStats(Reads!Counted(s, a))
           /\ Reads!Counted(s, a).exhausted =
                (~Reads!OutOfBudget(a) /\ ~Reads!Raises(a) /\ a.cursor = Reads!Nothing)
  <1> DEFINE u == Reads!Counted(s, a)
  <1>1. PICK x, y, w : u =
          [s EXCEPT !.pages = x, !.rows = y,
                    !.exhausted = ~Reads!OutOfBudget(a) /\ ~Reads!Raises(a) /\ a.cursor = Reads!Nothing,
                    !.truncated = w]
    BY DEF Reads!Counted
  <1> HIDE DEF u
  <1>2. IsStats(u)
    BY <1>1 DEF IsStats
  <1>3. u.exhausted = (~Reads!OutOfBudget(a) /\ ~Reads!Raises(a) /\ a.cursor = Reads!Nothing)
    BY <1>1 DEF IsStats
  <1> QED
    BY <1>2, <1>3 DEF u

\* What every answer leaves as it is.
LEMMA AnswersLeave ==
    ASSUME ClientInv, walk.route \in {"live", "archive"}, UNCHANGED <<exchange, began>>
    PROVE  /\ Reads!Rows' = Reads!Rows
           /\ Reads!Served("live")' = Reads!Served("live")
           /\ ~claims.probe.answered
           /\ claims[walk.route] \in {claims.live, claims.archive}
           /\ IsStats(claims[walk.route])
  <1>1. Reads!Rows' = Reads!Rows
    BY DEF Reads!Rows
  <1>2. Reads!Served("live")' = Reads!Served("live")
    BY DEF Reads!Served
  <1>3. ~claims.probe.answered
    BY DEF ClientInv, ProbeInv
  <1>4. claims[walk.route] \in {claims.live, claims.archive}
    OBVIOUS
  <1>5. IsStats(claims[walk.route])
    BY <1>4 DEF ClientInv, ClientRecords
  <1> QED
    BY <1>1, <1>2, <1>3, <1>4, <1>5

\* A walk that ends without having ended its list, and what it had yielded.
LEMMA EndedKeeps ==
    ASSUME ClientInv, walk.route \in {"live", "archive"}, UNCHANGED <<exchange, began>>,
           NEW stats, IsStats(stats), stats.exhausted = claims[walk.route].exhausted \/ ~stats.exhausted,
           NEW failed, NEW raised, walk' = [walk EXCEPT !.route = "done"],
           claims' = [claims EXCEPT ![walk.route] = stats, !.archiveFailed = failed, !.raised = raised],
           yielded \subseteq yielded', yielded' \subseteq Reads!Rows
    PROVE  ClientInv'
  <1>0. Reads!Rows' = Reads!Rows /\ Reads!Served("live")' = Reads!Served("live") /\ ~claims.probe.answered
    BY AnswersLeave
  <1>1. /\ walk'.mode = walk.mode /\ walk'.route = "done"
        /\ walk'.left = walk.left /\ walk'.cursor = walk.cursor
    BY DEF ClientInv, ClientRecords
  <1>2. /\ claims'.probe = claims.probe
        /\ claims'.live = IF walk.route = "live" THEN stats ELSE claims.live
        /\ claims'.archive = IF walk.route = "archive" THEN stats ELSE claims.archive
    BY DEF ClientInv, ClientRecords
  <1>3. ClientRecords'
    <2>1. IsStats(claims'.live) /\ IsStats(claims'.archive)
      BY <1>2 DEF ClientInv, ClientRecords
    <2>2. IsStats(claims.live)' /\ IsStats(claims.archive)'
      BY <2>1 DEF IsStats
    <2> QED
      BY <1>1, <2>2 DEF ClientInv, ClientRecords, Reads!Modes
  <1>4. RowsInv'
    BY <1>0, <1>1 DEF ClientInv, RowsInv
  <1>5. WalkInv'
    BY <1>1 DEF ClientInv, WalkInv, Reads!Unbounded
  <1>6. ClaimsInv'
    BY <1>0, <1>1, <1>2 DEF ClientInv, ClaimsInv
  <1>7. ProbeInv'
    BY <1>0, <1>1, <1>2 DEF ProbeInv
  <1> QED
    BY <1>3, <1>4, <1>5, <1>6, <1>7 DEF ClientInv

LEMMA AnswerKeeps ==
    ASSUME ClientInv, walk.route \in {"live", "archive"}, UNCHANGED <<exchange, began>>,
           NEW page, page = Reads!Page(page.rows, page.cursor), page.cursor \in Nat,
           page.rows \subseteq Reads!Served(walk.route),
           \A r \in Reads!Served(walk.route) :
             walk.cursor = Reads!Nothing \/ r < walk.cursor =>
               r \in page.rows \/ (page.cursor # Reads!Nothing /\ r < page.cursor),
           NEW a \in {page} \cup Reads!Faults(page, walk.seen), Reads!Answered(a),
           MaxRows \in Nat
    PROVE  ClientInv'
  <1>0. /\ Reads!Rows' = Reads!Rows /\ Reads!Served("live")' = Reads!Served("live")
        /\ ~claims.probe.answered /\ IsStats(claims[walk.route])
    BY AnswersLeave
  <1>1. CASE Reads!Retried(a)
    <2>1. /\ walk' = [walk EXCEPT !.tries = walk.tries + 1]
          /\ UNCHANGED <<yielded, claims>>
      BY <1>1 DEF Reads!Answered
    <2>2. /\ walk'.mode = walk.mode /\ walk'.route = walk.route
          /\ walk'.left = walk.left /\ walk'.cursor = walk.cursor
      BY <2>1 DEF ClientInv, ClientRecords
    <2>3. ClientRecords'
      BY <2>1, <2>2 DEF ClientInv, ClientRecords, IsStats, Reads!Modes
    <2>4. RowsInv'
      BY <1>0, <2>1, <2>2 DEF ClientInv, RowsInv
    <2>5. WalkInv'
      BY <1>0, <2>1, <2>2 DEF ClientInv, WalkInv, Ahead, Reads!Unbounded, Reads!Nothing
    <2>6. ClaimsInv' /\ ProbeInv'
      BY <1>0, <2>1, <2>2 DEF ClientInv, ClaimsInv, ProbeInv
    <2> QED
      BY <2>3, <2>4, <2>5, <2>6 DEF ClientInv
  <1>2. CASE ~Reads!Retried(a) /\ ~Reads!RequireList(a)
    <2>1. Reads!Fail(claims[walk.route]) /\ UNCHANGED yielded
      BY <1>2 DEF Reads!Answered
    <2>2. yielded \subseteq yielded' /\ yielded' \subseteq Reads!Rows
      BY <2>1 DEF ClientInv, RowsInv
    <2> QED
      BY <1>0, <2>1, <2>2, EndedKeeps DEF Reads!Fail
  <1> SUFFICES ASSUME ~Reads!Retried(a), Reads!RequireList(a) PROVE ClientInv'
    BY <1>1, <1>2
  <1> DEFINE stats == Reads!Counted(claims[walk.route], a)
  <1>3. /\ IsStats(stats)
        /\ stats.exhausted =
             (~Reads!OutOfBudget(a) /\ ~Reads!Raises(a) /\ a.cursor = Reads!Nothing)
    BY <1>0, CountedStats
  <1>4. yielded' = yielded \cup Reads!Within(a.rows)
    BY DEF Reads!Answered
  <1>5. a.rows = page.rows \/ a.rows = {}
    BY WhatIsAnswered
  <1>6. Reads!Served(walk.route) \subseteq Reads!Rows
    BY DEF Reads!Served, Reads!Rows
  <1>7. yielded \subseteq yielded' /\ yielded' \subseteq Reads!Rows
    BY <1>4, <1>5, <1>6, YieldsOfThePage DEF ClientInv, RowsInv
  <1> HIDE DEF stats
  <1>8. CASE Reads!Raises(a)
    <2>1. Reads!Fail(stats)
      BY <1>8 DEF Reads!Answered, stats
    <2>2. ~stats.exhausted
      BY <1>3, <1>8
    <2> QED
      BY <1>3, <1>7, <2>1, <2>2, EndedKeeps DEF Reads!Fail
  <1> SUFFICES ASSUME ~Reads!Raises(a) PROVE ClientInv'
    BY <1>8
  <1>9. /\ claims' = IF walk.mode = "markets" THEN claims ELSE [claims EXCEPT ![walk.route] = stats]
        /\ walk' = IF Reads!OutOfBudget(a) \/ a.cursor = Reads!Nothing \/ Reads!LastPage
                   THEN Reads!AfterWalk
                   ELSE [walk EXCEPT
                           !.cursor = a.cursor, !.seen = @ \cup {a.cursor}, !.tries = 0,
                           !.left = IF @ = Reads!Unbounded THEN @ ELSE @ - Reads!Cardinality(a.rows)]
    BY DEF Reads!Answered, stats
  <1>10. /\ claims'.probe = claims.probe
         /\ claims'.live = IF walk.route = "live" /\ walk.mode # "markets" THEN stats ELSE claims.live
         /\ claims'.archive = IF walk.route = "archive" /\ walk.mode # "markets" THEN stats ELSE claims.archive
         /\ claims' = [live |-> claims'.live, archive |-> claims'.archive,
                       archiveFailed |-> claims'.archiveFailed, raised |-> claims'.raised,
                       probe |-> claims'.probe]
    BY <1>9 DEF ClientInv, ClientRecords
  <1>11. IsStats(claims.live)' /\ IsStats(claims.archive)'
    <2>1. IsStats(claims'.live) /\ IsStats(claims'.archive)
      BY <1>3, <1>10 DEF ClientInv, ClientRecords
    <2> QED
      BY <2>1 DEF IsStats
  <1> DEFINE ends == Reads!OutOfBudget(a) \/ a.cursor = Reads!Nothing \/ Reads!LastPage
  <1>12. ASSUME ends, walk.mode = "history", walk.route = "live"
         PROVE  /\ walk' = [mode |-> walk.mode, route |-> "archive", cursor |-> Reads!Nothing,
                            seen |-> {}, left |-> Reads!Unbounded, tries |-> 0]
    BY <1>9, <1>12 DEF Reads!AfterWalk, Reads!Start, Reads!Remaining
  <1>13. ASSUME ends, ~(walk.mode = "history" /\ walk.route = "live")
         PROVE  \E after \in {"probe", "done"} :
                  /\ walk' = [walk EXCEPT !.route = after]
                  /\ after = "probe" => walk.mode = "settlements"
    BY <1>9, <1>13 DEF Reads!AfterWalk
  <1>14. Reads!Cardinality(a.rows) \in Int
    <2>1. PICK n \in 0..MaxRows : Reads!Rows = 1..n
      BY DEF ClientInv, RowsInv
    <2>2. a.rows \subseteq 1..n
      BY <1>5, <1>6, <2>1
    <2>3. IsFiniteSet(1..n)
      BY FS_Interval
    <2> QED
      BY <2>2, <2>3, FS_Subset, FS_CardinalityType, ReadsCount
  <1>15. ASSUME ~ends
         PROVE  /\ walk'.mode = walk.mode /\ walk'.route = walk.route
                /\ walk'.cursor = a.cursor /\ a.cursor \in Nat /\ walk'.left \in Int
                /\ walk.left = Reads!Unbounded => walk'.left = Reads!Unbounded
                /\ walk' = [mode |-> walk'.mode, route |-> walk'.route, cursor |-> walk'.cursor,
                            seen |-> walk'.seen, left |-> walk'.left, tries |-> walk'.tries]
    <2>1. a.cursor \in Nat
      BY <1>15, WhatIsAnswered
    <2>2. PICK seen, left :
            /\ walk' = [walk EXCEPT !.cursor = a.cursor, !.seen = seen, !.tries = 0, !.left = left]
            /\ left = IF walk.left = Reads!Unbounded THEN walk.left
                      ELSE walk.left - Reads!Cardinality(a.rows)
      BY <1>9, <1>15
    <2>3. left \in Int /\ (walk.left = Reads!Unbounded => left = Reads!Unbounded)
      BY <1>14, <2>2 DEF ClientInv, ClientRecords
    <2>4. /\ walk'.mode = walk.mode /\ walk'.route = walk.route
          /\ walk'.cursor = a.cursor /\ walk'.left = left
      BY <2>2 DEF ClientInv, ClientRecords
    <2>5. walk' = [mode |-> walk'.mode, route |-> walk'.route, cursor |-> walk'.cursor,
                   seen |-> walk'.seen, left |-> walk'.left, tries |-> walk'.tries]
      BY <2>2 DEF ClientInv, ClientRecords
    <2> QED
      BY <2>1, <2>3, <2>4, <2>5
  <1>16. walk'.mode = walk.mode /\ ClientRecords'
    <2>1. CASE ends /\ walk.mode = "history" /\ walk.route = "live"
      BY <1>10, <1>11, <1>12, <2>1
         DEF ClientInv, ClientRecords, Reads!Modes, Reads!Nothing, Reads!Unbounded
    <2>2. CASE ends /\ ~(walk.mode = "history" /\ walk.route = "live")
      BY <1>10, <1>11, <1>13, <2>2 DEF ClientInv, ClientRecords, Reads!Modes
    <2>3. CASE ~ends
      BY <1>10, <1>11, <1>15, <2>3 DEF ClientInv, ClientRecords, Reads!Modes
    <2> HIDE DEF ends
    <2> QED
      BY <2>1, <2>2, <2>3
  <1>17. RowsInv'
    BY <1>0, <1>7, <1>16 DEF ClientInv, RowsInv
  <1>18. ProbeInv'
    <2>1. CASE ends /\ walk.mode = "history" /\ walk.route = "live"
      BY <1>0, <1>10, <1>12, <2>1 DEF ProbeInv
    <2>2. CASE ends /\ ~(walk.mode = "history" /\ walk.route = "live")
      BY <1>0, <1>10, <1>13, <1>16, <2>2 DEF ClientInv, ClientRecords, ProbeInv
    <2>3. CASE ~ends
      BY <1>0, <1>10, <1>15, <1>16, <2>3 DEF ProbeInv
    <2> HIDE DEF ends
    <2> QED
      BY <2>1, <2>2, <2>3
  <1>19. CASE Reads!OutOfBudget(a) \/ walk.mode = "markets"
    <2>1. walk.mode # "history" /\ walk.route = "live"
      BY <1>19 DEF ClientInv, WalkInv, Reads!OutOfBudget
    <2>2. /\ walk'.route \in {"live", "probe", "done"}
          /\ Reads!OutOfBudget(a) => walk'.route # "live"
      <3>1. CASE ends
        BY <1>13, <2>1, <3>1 DEF ClientInv, ClientRecords
      <3>2. CASE ~ends
        BY <1>15, <2>1, <3>2
      <3> HIDE DEF ends
      <3>3. Reads!OutOfBudget(a) => ends
        BY DEF ends
      <3>4. ends => walk'.route \in {"probe", "done"}
        BY <1>13, <2>1 DEF ClientInv, ClientRecords
      <3> QED
        BY <3>1, <3>2, <3>3, <3>4
    <2>3. WalkInv'
      BY <1>16, <1>19, <2>1, <2>2 DEF WalkInv
    <2>4. claims'.archive = claims.archive /\ (claims'.live.exhausted => claims.live.exhausted)
      BY <1>3, <1>10, <1>19, <2>1
    <2>5. ClaimsInv'
      BY <1>0, <1>7, <1>16, <2>1, <2>4 DEF ClientInv, ClaimsInv
    <2> QED
      BY <1>18, <1>16, <1>17, <2>3, <2>5 DEF ClientInv
  <1>20. CASE ~Reads!OutOfBudget(a) /\ walk.mode # "markets"
    <2>1. a = page
      BY <1>20, WhatIsAnswered
    <2>2. yielded' = yielded \cup page.rows
      <3>1. PICK n \in 0..MaxRows : Reads!Rows = 1..n
        BY DEF ClientInv, RowsInv
      <3>2. a.rows \subseteq 1..n /\ n \in Nat /\ walk.left \in Int
        BY <1>5, <1>6, <3>1 DEF ClientInv, ClientRecords
      <3> QED
        BY <1>4, <1>20, <2>1, <3>2, AllWithin
    <2>3. ~Reads!LastPage
      BY <1>20 DEF Reads!LastPage
    <2>4. walk.mode = "history" => \A route : Reads!Served(route) = exchange[route]
      BY DEF ClientInv, RowsInv, Reads!Served
    <2>5. walk.route = "archive" => walk.mode = "history"
      BY DEF ClientInv, WalkInv
    <2>6. CASE page.cursor = Reads!Nothing
      <3>1. ends
        BY <2>1, <2>6
      <3>2. CASE walk.route = "live"
        <4>1. began \cap Reads!Served("live") \subseteq yielded'
          BY <1>20, <2>2, <2>6, <3>2 DEF ClientInv, WalkInv, Ahead
        <4>2. ClaimsInv'
          BY <1>0, <1>7, <1>10, <3>2, <4>1 DEF ClientInv, ClaimsInv
        <4>3. CASE walk.mode = "history"
          <5>1. began \cap exchange.live \subseteq yielded'
            BY <2>4, <4>1, <4>3
          <5>2. WalkInv'
            BY <1>12, <3>1, <3>2, <4>3, <5>1 DEF WalkInv, Ahead
          <5> QED
            BY <1>18, <1>16, <1>17, <4>2, <5>2 DEF ClientInv
        <4>4. CASE walk.mode # "history"
          <5>1. walk'.route \in {"probe", "done"}
            BY <1>13, <3>1, <4>4 DEF ClientInv, ClientRecords
          <5>2. WalkInv'
            BY <1>16, <4>4, <5>1 DEF WalkInv
          <5> QED
            BY <1>18, <1>16, <1>17, <4>2, <5>2 DEF ClientInv
        <4> QED
          BY <4>3, <4>4
      <3>3. CASE walk.route = "archive"
        <4>1. began \cap exchange.archive \subseteq yielded'
          BY <2>2, <2>4, <2>5, <2>6, <3>3 DEF ClientInv, WalkInv, Ahead
        <4>2. began \subseteq yielded'
          BY <1>7, <3>3, <4>1 DEF ClientInv, WalkInv, RowsInv, Reads!Rows
        <4>3. walk'.route \in {"probe", "done"} /\ walk'.left = walk.left
          BY <1>13, <3>1, <3>3 DEF ClientInv, ClientRecords
        <4>4. WalkInv'
          BY <1>16, <4>3 DEF ClientInv, WalkInv, Reads!Unbounded
        <4>5. ClaimsInv'
          BY <1>16, <2>5, <3>3, <4>2 DEF ClaimsInv
        <4> QED
          BY <1>18, <1>16, <1>17, <4>4, <4>5 DEF ClientInv
      <3> QED
        BY <3>2, <3>3
    <2>7. CASE page.cursor # Reads!Nothing
      <3>1. ~ends
        BY <1>20, <2>1, <2>3, <2>7
      <3> HIDE DEF ends
      <3>2. /\ walk'.route = walk.route /\ walk'.cursor = page.cursor
            /\ walk.left = Reads!Unbounded => walk'.left = Reads!Unbounded
        BY <1>15, <2>1, <3>1
      <3>3. walk.route = "live" =>
              \A r \in began \cap Reads!Served("live") :
                r \in yielded' \/ r < page.cursor
        BY <1>20, <2>2 DEF ClientInv, WalkInv, Ahead
      <3>4. walk.route = "archive" =>
              /\ began \cap exchange.live \subseteq yielded'
              /\ \A r \in began \cap exchange.archive : r \in yielded' \/ r < page.cursor
        BY <2>2, <2>4, <2>5 DEF ClientInv, WalkInv, Ahead
      <3>5. WalkInv'
        BY <1>0, <1>16, <3>2, <3>3, <3>4 DEF ClientInv, WalkInv, Ahead, Reads!Unbounded
      <3>6. ~stats.exhausted
        BY <1>3, <2>1, <2>7
      <3>7. ClaimsInv'
        BY <1>0, <1>7, <1>10, <1>16, <3>6 DEF ClientInv, ClaimsInv
      <3> QED
        BY <1>18, <1>16, <1>17, <3>5, <3>7 DEF ClientInv
    <2> QED
      BY <2>6, <2>7
  <1> QED
    BY <1>19, <1>20

LEMMA ReceiveKeeps ==
    ASSUME ClientInv, MaxRows \in Nat, PageLimit \in Nat, Budget \in Nat, Reads!Receive
    PROVE  ClientInv'
  <1>1. walk.route \in {"live", "archive"} /\ UNCHANGED <<exchange, began>>
    BY DEF Reads!Receive
  <1>2. PICK page \in Reads!HonestPages(walk.route, walk.cursor, Reads!LimitOf) :
          \E a \in {page} \cup Reads!Faults(page, walk.seen) : Reads!Answered(a)
    BY DEF Reads!Receive
  <1>3. PICK a \in {page} \cup Reads!Faults(page, walk.seen) : Reads!Answered(a)
    BY <1>2
  <1>4. PICK n \in 0..MaxRows : Reads!Rows = 1..n
    BY DEF ClientInv, RowsInv
  <1>5. Reads!Served(walk.route) \subseteq 1..n /\ n \in Nat
    BY <1>1, <1>4 DEF Reads!Served, Reads!Rows
  <1>6. Reads!LimitOf \in Int
    <2>1. \A x, y \in Int : Reads!Min({x, y}) \in Int
      <3> SUFFICES ASSUME NEW x \in Int, NEW y \in Int PROVE Reads!Min({x, y}) \in Int
        OBVIOUS
      <3>1. \E m \in {x, y} : \A k \in {x, y} : m <= k
        OBVIOUS
      <3>2. Reads!Min({x, y}) \in {x, y}
        BY <3>1 DEF Reads!Min
      <3> QED
        BY <3>2
    <2> QED
      BY <2>1 DEF Reads!LimitOf, ClientInv, ClientRecords
  <1>7. walk.cursor \in Nat
    BY DEF ClientInv, ClientRecords
  <1>8. /\ page = Reads!Page(page.rows, page.cursor) /\ page.cursor \in Nat
        /\ page.rows \subseteq Reads!Served(walk.route)
        /\ \A r \in Reads!Served(walk.route) :
             walk.cursor = Reads!Nothing \/ r < walk.cursor =>
               r \in page.rows \/ (page.cursor # Reads!Nothing /\ r < page.cursor)
    BY <1>2, <1>5, <1>6, <1>7, HonestPage
  <1> QED
    BY <1>1, <1>3, <1>8, AnswerKeeps

\* The floor is a row that was yielded.
LEMMA FloorIsARow ==
    ASSUME ClientInv, MaxRows \in Nat, Reads!ObservedFloor # Reads!Nothing
    PROVE  Reads!ObservedFloor \in Reads!Rows
  <1>1. yielded # {} /\ Reads!ObservedFloor = Reads!Min(yielded)
    BY DEF Reads!ObservedFloor
  <1>2. PICK n \in 0..MaxRows : Reads!Rows = 1..n
    BY DEF ClientInv, RowsInv
  <1>3. yielded \subseteq Nat
    BY <1>2 DEF ClientInv, RowsInv
  <1>4. Reads!Min(yielded) \in yielded
    BY <1>1, <1>3, LeastRow
  <1> QED
    BY <1>1, <1>4 DEF ClientInv, RowsInv

LEMMA NewRowKeeps ==
    ASSUME ClientInv, MaxRows \in Nat, Reads!NewRow PROVE ClientInv'
  <1>1. PICK n \in 0..MaxRows : Reads!Rows = 1..n
    BY DEF ClientInv, RowsInv
  <1>2. Reads!Cardinality(Reads!Rows) = n
    BY <1>1, FS_Interval, ReadsCount
  <1>3. /\ exchange' = [exchange EXCEPT !.live = exchange.live \cup {n + 1}] /\ n < MaxRows
        /\ UNCHANGED <<began, walk, yielded, claims>>
    BY <1>2 DEF Reads!NewRow
  <1>4. /\ exchange'.live = exchange.live \cup {n + 1} /\ exchange'.archive = exchange.archive
        /\ exchange'.unreadable = exchange.unreadable /\ exchange'.windowed = exchange.windowed
        /\ exchange'.heeds = exchange.heeds
    BY <1>3 DEF ClientInv, ClientRecords
  <1>5. ClientRecords'
    BY <1>3, <1>4 DEF ClientInv, ClientRecords, IsStats, Reads!Modes
  <1>6. Reads!Rows' = 1..(n + 1)
    BY <1>1, <1>4 DEF Reads!Rows
  <1>7. n \in Nat /\ n + 1 \in 0..MaxRows /\ 1..n \subseteq 1..(n + 1)
    BY <1>3
  <1>8. RowsInv'
    <2>1. \A r \in exchange.archive : r < n + 1
      BY <1>1, <1>7 DEF Reads!Rows
    <2> QED
      BY <1>1, <1>3, <1>4, <1>6, <1>7, <2>1 DEF ClientInv, RowsInv
  <1>9. began \cap Reads!Served("live")' = began \cap Reads!Served("live")
    <2>1. n + 1 \notin began
      BY <1>1, <1>7 DEF ClientInv, RowsInv
    <2> QED
      BY <1>4, <2>1 DEF Reads!Served
  <1>10. began \cap exchange'.live = began \cap exchange.live
    BY <1>1, <1>4, <1>7 DEF ClientInv, RowsInv
  <1>11. WalkInv' /\ ClaimsInv'
    BY <1>3, <1>4, <1>9, <1>10 DEF ClientInv, WalkInv, ClaimsInv, Ahead, Reads!Unbounded, Reads!Nothing
  <1>12. ProbeInv'
    <2>1. Reads!ObservedFloor' = Reads!ObservedFloor
      BY <1>3, <1>4 DEF Reads!ObservedFloor, Reads!Min, Reads!Nothing
    <2>2. Reads!Floor' = Reads!Floor
      BY <1>3, <2>1 DEF Reads!Floor, Reads!Nothing
    <2>3. Reads!Floor # Reads!Nothing => Reads!Floor \in 1..n
      BY <1>1, FloorIsARow DEF Reads!Floor
    <2> QED
      BY <1>1, <1>3, <1>4, <1>6, <1>7, <2>2, <2>3 DEF ClientInv, ProbeInv, Reads!Nothing
  <1> QED
    BY <1>5, <1>8, <1>11, <1>12 DEF ClientInv

LEMMA ArchiveKeeps ==
    ASSUME ClientInv, MaxRows \in Nat, Reads!Archive PROVE ClientInv'
  <1> DEFINE oldest == Reads!Min(exchange.live)
  <1>1. PICK n \in 0..MaxRows : Reads!Rows = 1..n
    BY DEF ClientInv, RowsInv
  <1>2. /\ exchange' = [exchange EXCEPT !.live = @ \ {oldest}, !.archive = @ \cup {oldest}]
        /\ walk.mode \in {"history", "sample"} /\ exchange.live # {}
        /\ UNCHANGED <<began, walk, yielded, claims>>
    BY DEF Reads!Archive
  <1>3. exchange.live \subseteq Nat /\ exchange.archive \subseteq Nat
    BY <1>1 DEF Reads!Rows
  <1>4. oldest \in exchange.live /\ \A l \in exchange.live : oldest <= l
    BY <1>2, <1>3, LeastRow
  <1> HIDE DEF oldest
  <1>5. /\ exchange'.live = exchange.live \ {oldest}
        /\ exchange'.archive = exchange.archive \cup {oldest}
        /\ exchange'.unreadable = exchange.unreadable /\ exchange'.windowed = exchange.windowed
        /\ exchange'.heeds = exchange.heeds
    BY <1>2 DEF ClientInv, ClientRecords
  <1>6. ClientRecords'
    BY <1>2, <1>5 DEF ClientInv, ClientRecords, IsStats, Reads!Modes
  <1>7. Reads!Rows' = Reads!Rows
    BY <1>4, <1>5 DEF Reads!Rows
  <1>8. RowsInv'
    <2>1. \A a \in exchange'.archive, l \in exchange'.live : a < l
      BY <1>3, <1>4, <1>5 DEF ClientInv, RowsInv
    <2> QED
      BY <1>2, <1>5, <1>7, <2>1 DEF ClientInv, RowsInv
  <1>9. Reads!Served("live")' \subseteq Reads!Served("live")
    BY <1>5 DEF Reads!Served
  <1>10. WalkInv' /\ ClaimsInv'
    BY <1>2, <1>4, <1>5, <1>9
       DEF ClientInv, WalkInv, ClaimsInv, Ahead, Reads!Unbounded, Reads!Nothing
  <1>11. ProbeInv'
    BY <1>2 DEF ClientInv, ProbeInv
  <1> QED
    BY <1>6, <1>8, <1>10, <1>11 DEF ClientInv

LEMMA ProbeBelowKeeps ==
    ASSUME ClientInv, MaxRows \in Nat, Reads!ProbeBelow PROVE ClientInv'
  <1>1. /\ walk.route = "probe" /\ walk.mode = "settlements"
        /\ walk' = [walk EXCEPT !.route = "done"]
        /\ UNCHANGED <<exchange, began, yielded>>
    BY DEF Reads!ProbeBelow, ClientInv, ProbeInv
  <1>2. /\ walk'.mode = walk.mode /\ walk'.route = "done"
        /\ walk'.left = walk.left /\ walk'.cursor = walk.cursor
    BY <1>1 DEF ClientInv, ClientRecords
  <1>3. \/ UNCHANGED claims
        \/ \E probe : claims' = [claims EXCEPT !.probe = probe]
    BY DEF Reads!ProbeBelow
  <1>4. claims'.live = claims.live /\ claims'.archive = claims.archive
    BY <1>3 DEF ClientInv, ClientRecords
  <1>5. ClientRecords'
    <2>1. IsStats(claims.live)' /\ IsStats(claims.archive)'
      BY <1>4 DEF ClientInv, ClientRecords, IsStats
    <2> QED
      BY <1>1, <1>2, <1>3, <2>1 DEF ClientInv, ClientRecords, Reads!Modes
  <1>6. Reads!Rows' = Reads!Rows /\ Reads!Served("live")' = Reads!Served("live")
    BY <1>1 DEF Reads!Rows, Reads!Served
  <1>7. RowsInv' /\ WalkInv' /\ ClaimsInv'
    BY <1>1, <1>2, <1>4, <1>6 DEF ClientInv, RowsInv, WalkInv, ClaimsInv, Reads!Unbounded
  <1>8. Reads!ObservedFloor' = Reads!ObservedFloor
    BY <1>1, <1>4 DEF Reads!ObservedFloor, Reads!Min, Reads!Nothing
  <1>9. ProbeInv'
    <2>1. CASE UNCHANGED claims
      BY <1>1, <1>2, <1>6, <2>1 DEF ClientInv, ProbeInv
    <2>2. CASE Reads!ObservedFloor # Reads!Nothing /\ ~UNCHANGED claims
      <3> DEFINE floor == Reads!ObservedFloor
                 older == {r \in exchange.live : r < floor}
                 row == IF exchange.heeds THEN older ELSE exchange.live
      <3>1. PICK ok \in BOOLEAN : claims' = [claims EXCEPT !.probe =
              [asked |-> TRUE, answered |-> ok,
               older |-> IF ok /\ row # {} /\ Reads!Max(row) < floor THEN 1 ELSE 0]]
        BY <2>2 DEF Reads!ProbeBelow
      <3>2. /\ claims'.probe.answered = ok
            /\ claims'.probe.older = IF ok /\ row # {} /\ Reads!Max(row) < floor THEN 1 ELSE 0
        BY <3>1 DEF ClientInv, ClientRecords
      <3>3. PICK n \in 0..MaxRows : Reads!Rows = 1..n
        BY DEF ClientInv, RowsInv
      <3>4. older \subseteq 1..n /\ n \in Nat
        BY <3>3 DEF Reads!Rows
      <3>5. older # {} => Reads!Max(older) \in older
        <4> HIDE DEF older
        <4> QED
          BY <3>4, GreatestRow
      <3>6. older # {} => Reads!Max(older) < floor
        BY <3>5
      <3>7. exchange.heeds /\ ok /\ claims'.probe.older = 0 => older = {}
        BY <3>2, <3>6
      <3>8. Reads!Rows = exchange.live
        BY <1>1 DEF ClientInv, RowsInv, Reads!Rows
      <3>9. floor \in 1..n
        BY <2>2, <3>3, FloorIsARow
      <3>10. older = {} => \A r \in Reads!Rows : r >= floor
        BY <3>3, <3>8, <3>9
      <3>11. Reads!Floor' # Reads!Nothing => claims'.probe.older = 0 /\ Reads!Floor' = floor
        BY <1>8, <3>2 DEF Reads!Floor, Reads!Nothing
      <3> HIDE DEF older, floor
      <3> QED
        BY <1>1, <1>2, <1>6, <3>2, <3>7, <3>10, <3>11 DEF ProbeInv, Reads!Nothing
    <2> QED
      BY <2>1, <2>2 DEF Reads!ProbeBelow
  <1> QED
    BY <1>5, <1>7, <1>9 DEF ClientInv

LEMMA ClientInitially == ASSUME MaxRows \in Nat, Budget \in Nat, Reads!Init PROVE ClientInv
  <1>1. PICK rows \in 0..MaxRows, mode \in Reads!Modes, windowed \in BOOLEAN, heeds \in BOOLEAN,
             odd \in SUBSET {1} :
          /\ mode # "settlements" => ~windowed /\ ~heeds /\ odd = {}
          /\ exchange = [live |-> 1..rows, archive |-> {}, unreadable |-> odd,
                         windowed |-> windowed, heeds |-> heeds]
          /\ began = 1..rows
          /\ walk = Reads!Start(mode, "live")
    BY DEF Reads!Init
  <1>2. /\ yielded = {}
        /\ claims = [live |-> Reads!NoStats, archive |-> Reads!NoStats, archiveFailed |-> FALSE,
                     raised |-> FALSE, probe |-> Reads!NoProbe]
    BY DEF Reads!Init
  <1>3. ClientRecords
    BY <1>1, <1>2 DEF ClientRecords, IsStats, Reads!Start, Reads!NoStats, Reads!Nothing,
                      Reads!Remaining, Reads!Unbounded
  <1>4. RowsInv
    BY <1>1, <1>2 DEF RowsInv, Reads!Rows, Reads!Start
  <1>5. WalkInv
    BY <1>1 DEF WalkInv, Ahead, Reads!Start, Reads!Remaining
  <1>6. ClaimsInv /\ ProbeInv
    BY <1>1, <1>2 DEF ClaimsInv, ProbeInv, Reads!NoStats, Reads!NoProbe, Reads!Start
  <1> QED
    BY <1>3, <1>4, <1>5, <1>6 DEF ClientInv

LEMMA ClientKeeps ==
    ASSUME ClientInv, MaxRows \in Nat, PageLimit \in Nat, Budget \in Nat, [Reads!Next]_clientVars
    PROVE  ClientInv'
  <1>1. CASE UNCHANGED clientVars
    BY <1>1 DEF clientVars, ClientInv, ClientRecords, IsStats, RowsInv, WalkInv, ClaimsInv, ProbeInv, Ahead,
         Reads!Rows, Reads!Served, Reads!Floor, Reads!ObservedFloor, Reads!Min, Reads!Nothing,
         Reads!Unbounded, Reads!Modes
  <1> QED
    BY <1>1, NewRowKeeps, ArchiveKeeps, ReceiveKeeps, ProbeBelowKeeps DEF Reads!Next

\* A complete history holds every fill there was when the read began, an
\* exhausted walk what its route served throughout, and a probed floor has
\* nothing older below it, whatever goes wrong with a page and however rows come
\* and move between the routes meanwhile (_chain_fill_routes,
\* _iter_cursor_pages, _probe_below_the_floor).
THEOREM ReadsAreWhole == Spec => []ClaimedReadsAreWhole
  <1> USE BoundsAreNumbers
  <1>1. InitAlongside => ClientInv
    BY ClientInitially DEF InitAlongside
  <1>2. ClientInv /\ [NextAlongside]_vars => ClientInv'
    <2>1. [NextAlongside]_vars => [Reads!Next]_clientVars
      BY DEF NextAlongside, vars
    <2> QED
      BY <2>1, ClientKeeps
  <1>3. ClientInv => ClaimedReadsAreWhole
    BY DEF ClientInv, ClaimsInv, ProbeInv, ClaimedReadsAreWhole, Reads!ClaimedReadsAreWhole,
           Reads!Complete
  <1> QED
    BY <1>1, <1>2, <1>3, PTL DEF Spec

-----------------------------------------------------------------------------
(* The entry-market collector.  A snapshot is stamped after its book was   *)
(* shown, so the last one stamped before an order was placed shows a book  *)
(* from before it.  What is published is behind the file it was copied     *)
(* from, that file behind the state file, and that one behind the memory;  *)
(* the branch keeps both, and the next link starts from its state.         *)

Current(s) == s.version = Capture!Blank.version

IsState(s) ==
    s = [version |-> s.version, counted |-> s.counted, historical |-> s.historical,
         ignored |-> s.ignored]

\* A state's fresh quotes are of before their orders, its cohorts disjoint.
HonestState(s, times) ==
    /\ IsState(s)
    /\ \A o \in DOMAIN s.counted : s.counted[o].status = "ENTRY_FRESH" =>
         o \in DOMAIN times /\ s.counted[o].book <= times[o]
    /\ DOMAIN s.counted \cap (s.historical \cup s.ignored) = {}
    /\ s.historical \cap s.ignored = {}

\* All that a counts, b counts in the same way.
Behind(a, b) ==
    \A o \in DOMAIN a.counted : o \in DOMAIN b.counted /\ b.counted[o] = a.counted[o]

LinkRecord ==
    /\ link = [pc |-> link.pc, startedAt |-> link.startedAt, restored |-> link.restored,
               state |-> link.state, ring |-> link.ring, response |-> link.response,
               unsampled |-> link.unsampled, orders |-> link.orders, passAt |-> link.passAt]
    /\ disk = [state |-> disk.state, public |-> disk.public]
    /\ branch = [state |-> branch.state, stats |-> branch.stats]

AccountInv ==
    /\ clock \in Nat /\ clock >= 1
    /\ \A o \in DOMAIN placed : placed[o] \in Nat
    /\ \A i \in DOMAIN executed : executed[i] \in DOMAIN placed
    /\ \A i \in DOMAIN link.orders : link.orders[i] \in DOMAIN placed
    /\ executed \in Seq(Orders \cup LegacyOrders)

RingInv ==
    /\ link.response = <<>> \/
         \E t \in Watched, b \in Nat : b <= clock /\ link.response = <<[ticker |-> t, book |-> b]>>
    /\ DOMAIN link.ring = Watched
    /\ \A t \in Watched : \A at \in DOMAIN link.ring[t] :
         at \in 1..clock /\ link.ring[t][at] \in Nat /\ link.ring[t][at] <= at

StatesInv ==
    /\ HonestState(link.state, placed) /\ Current(link.state)
    /\ \A s \in {disk.state, disk.public, copy, branch.state, branch.stats} \ {Capture!NoFile} :
         HonestState(s, placed)

ChainInv ==
    /\ disk.public # Capture!NoFile => disk.state # Capture!NoFile /\ Behind(disk.public, disk.state)
    /\ disk.state # Capture!NoFile => Current(disk.state) /\ Behind(disk.state, link.state)
    /\ disk.public # Capture!NoFile => Current(disk.public)
    /\ link.pc \in {"saving", "ending"} => disk.state = link.state
    /\ copy # Capture!NoFile =>
         Current(copy) /\ disk.public # Capture!NoFile /\ Behind(copy, disk.public)
    /\ branch.stats # Capture!NoFile =>
         /\ branch.state # Capture!NoFile /\ Behind(branch.stats, branch.state)
         /\ Current(branch.stats) => Current(branch.state)
    /\ link.pc = "off" => disk.state = Capture!NoFile /\ disk.public = Capture!NoFile /\ copy = Capture!NoFile
    /\ link.pc # "off" /\ link.restored /\ branch.stats # Capture!NoFile /\ Current(branch.stats) =>
         /\ Behind(branch.stats, link.state)
         /\ disk.public # Capture!NoFile => Behind(branch.stats, disk.public)
         /\ copy # Capture!NoFile => Behind(branch.stats, copy)

CaptureInv == LinkRecord /\ AccountInv /\ RingInv /\ StatesInv /\ ChainInv

LEMMA BehindBehind ==
    ASSUME NEW a, NEW b, NEW c, Behind(a, b), Behind(b, c) PROVE Behind(a, c)
  BY DEF Behind

LEMMA HonestLater ==
    ASSUME NEW s, NEW p, NEW q, HonestState(s, p), DOMAIN p \subseteq DOMAIN q,
           \A o \in DOMAIN p : q[o] = p[o]
    PROVE  HonestState(s, q)
  BY DEF HonestState

\* A cohort of the old axis is only ignored, one of this axis goes on.
LEMMA ReopenedIsHonest ==
    ASSUME NEW s, NEW p, HonestState(s, p)
    PROVE  /\ HonestState(Capture!Reopened(s), p) /\ Current(Capture!Reopened(s))
           /\ Current(s) => Behind(s, Capture!Reopened(s))
  <1> DEFINE current == Capture!Blank.version
  <1>1. CASE s.version = Capture!Blank.version \/ s.counted = Capture!NoCounts
    <2>1. Capture!Reopened(s) = [s EXCEPT !.version = current]
      BY <1>1 DEF Capture!Reopened
    <2> DEFINE r == Capture!Reopened(s)
    <2> HIDE DEF r, current
    <2>2. IsState(r) /\ r.version = current
      BY <2>1 DEF HonestState, IsState, r
    <2>3. r.counted = s.counted /\ r.historical = s.historical /\ r.ignored = s.ignored
      BY <2>1 DEF HonestState, IsState, r
    <2>4. HonestState(r, p) /\ Behind(s, r) /\ Current(r)
      BY <2>2, <2>3 DEF HonestState, Behind, Current, current
    <2> QED
      BY <2>4 DEF r
  <1>2. CASE ~(s.version = Capture!Blank.version \/ s.counted = Capture!NoCounts)
    <2>1. Capture!Reopened(s) =
            [s EXCEPT !.version = current, !.counted = Capture!NoCounts,
                      !.ignored = s.ignored \cup DOMAIN s.counted]
      BY <1>2 DEF Capture!Reopened
    <2> DEFINE r == Capture!Reopened(s)
    <2> HIDE DEF r, current
    <2>2. IsState(r) /\ r.version = current
      BY <2>1 DEF HonestState, IsState, r
    <2>3. /\ r.counted = Capture!NoCounts /\ r.historical = s.historical
          /\ r.ignored = s.ignored \cup DOMAIN s.counted
      BY <2>1 DEF HonestState, IsState, r
    <2>4. DOMAIN Capture!NoCounts = {}
      BY DEF Capture!NoCounts
    <2>5. HonestState(r, p) /\ Current(r)
      BY <2>2, <2>3, <2>4 DEF HonestState, Current, current
    <2>6. ~Current(s)
      BY <1>2 DEF Current
    <2> QED
      BY <2>5, <2>6 DEF r
  <1> QED
    BY <1>1, <1>2

\* A fresh quote is of a book shown before the order was placed.
LEMMA JoinedIsHonest ==
    ASSUME AccountInv, RingInv, NEW o \in DOMAIN placed, Capture!Joined(o).status = "ENTRY_FRESH"
    PROVE  Capture!Joined(o).book <= placed[o]
  <1> DEFINE ring == IF TickerOf[o] \in Watched THEN link.ring[TickerOf[o]] ELSE Capture!NoSnapshots
             before == Capture!AtOrBefore(ring, placed[o])
  <1>1. \A at \in DOMAIN ring : at \in 1..clock /\ ring[at] \in Nat /\ ring[at] <= at
    <2>1. DOMAIN Capture!NoSnapshots = {}
      BY DEF Capture!NoSnapshots
    <2> QED
      BY <2>1 DEF RingInv
  <1>2. Capture!Joined(o) = Capture!JoinOrder(ring, placed[o])
    BY DEF Capture!Joined
  <1> HIDE DEF ring
  <1>3. before # {} /\ Capture!Joined(o).book = ring[Capture!Max(before)]
    BY <1>2 DEF Capture!JoinOrder
  <1>4. before \subseteq 1..clock /\ clock \in Nat /\ \A at \in before : at <= placed[o]
    BY <1>1 DEF Capture!AtOrBefore, AccountInv
  <1>5. before \subseteq DOMAIN ring
    BY DEF Capture!AtOrBefore
  <1> HIDE DEF before
  <1>6. Capture!Max(before) \in before
    <2>1. \E n \in before : \A i \in before : i <= n
      BY <1>3, <1>4, SomeIsGreatest
    <2>2. \E n \in before : \A i \in before : n >= i
      BY <1>4, <2>1
    <2> QED
      BY <2>1, <2>2 DEF Capture!Max
  <1>7. ring[Capture!Max(before)] <= Capture!Max(before) /\ Capture!Max(before) <= placed[o]
    BY <1>1, <1>4, <1>5, <1>6
  <1>8. placed[o] \in Nat /\ Capture!Max(before) \in Nat /\ ring[Capture!Max(before)] \in Nat
    BY <1>1, <1>5, <1>6 DEF AccountInv
  <1> QED
    BY <1>3, <1>7, <1>8

\* A pass over a page of orders only adds to a state, and honestly.
LEMMA ProcessedIsHonest ==
    ASSUME CaptureInv
    PROVE  /\ HonestState(Capture!Processed(link.state), placed)
           /\ Current(Capture!Processed(link.state))
           /\ Behind(link.state, Capture!Processed(link.state))
  <1> DEFINE s == link.state
             r == Capture!Processed(link.state)
             historical == Capture!Fated("historical")
             ignored == Capture!Fated("ignored")
             counted == Capture!Fated("counted")
             count == [o \in DOMAIN s.counted \cup counted |->
                         IF o \in DOMAIN s.counted THEN s.counted[o] ELSE Capture!Joined(o)]
  <1>1. r = [s EXCEPT !.historical = s.historical \cup historical,
                      !.ignored = s.ignored \cup ignored, !.counted = count]
    BY DEF Capture!Processed
  <1>2. /\ historical \cap ignored = {} /\ counted \cap (historical \cup ignored) = {}
        /\ \A o \in historical \cup ignored \cup counted :
             o \notin DOMAIN s.counted \cup s.historical \cup s.ignored
    <2>1. \A o : Capture!Fate(o) # "passed over" => o \notin Capture!Known(link.state)
      BY DEF Capture!Fate
    <2> QED
      BY <2>1 DEF Capture!Fated, Capture!Known
  <1>3. counted \subseteq DOMAIN placed
    BY DEF Capture!Fated, Capture!Range, CaptureInv, AccountInv
  <1>4. HonestState(s, placed) /\ Current(s)
    BY DEF CaptureInv, StatesInv
  <1> HIDE DEF r, historical, ignored, counted, count
  <1>5. /\ r.version = s.version /\ r.counted = count
        /\ r.historical = s.historical \cup historical /\ r.ignored = s.ignored \cup ignored
    BY <1>1, <1>4 DEF HonestState, IsState
  <1>6. IsState(r)
    BY <1>1, <1>4 DEF HonestState, IsState
  <1>7. /\ DOMAIN count = DOMAIN s.counted \cup counted
        /\ \A o \in DOMAIN s.counted : count[o] = s.counted[o]
        /\ \A o \in counted : count[o] = Capture!Joined(o)
    BY <1>2 DEF count
  <1>8. \A o \in DOMAIN count : count[o].status = "ENTRY_FRESH" =>
          o \in DOMAIN placed /\ count[o].book <= placed[o]
    <2>1. \A o \in DOMAIN s.counted : count[o].status = "ENTRY_FRESH" =>
            o \in DOMAIN placed /\ count[o].book <= placed[o]
      BY <1>4, <1>7 DEF HonestState
    <2>2. \A o \in counted : count[o].status = "ENTRY_FRESH" =>
            o \in DOMAIN placed /\ count[o].book <= placed[o]
      BY <1>3, <1>7, JoinedIsHonest DEF CaptureInv
    <2> QED
      BY <1>7, <2>1, <2>2
  <1>9. /\ DOMAIN count \cap (r.historical \cup r.ignored) = {}
        /\ r.historical \cap r.ignored = {}
    BY <1>2, <1>4, <1>5, <1>7 DEF HonestState
  <1>10. HonestState(r, placed)
    BY <1>5, <1>6, <1>8, <1>9 DEF HonestState
  <1>11. Current(r) /\ Behind(s, r)
    BY <1>4, <1>5, <1>7 DEF Current, Behind
  <1> QED
    BY <1>10, <1>11 DEF r

\* A step that leaves the memory, the disk, the copy and the branch as they are.
LEMMA QuietCapture ==
    ASSUME CaptureInv, UNCHANGED <<disk, copy, branch>>,
           link'.state = link.state, link'.restored = link.restored,
           link'.pc = "off" <=> link.pc = "off",
           link'.pc \in {"saving", "ending"} => link.pc \in {"saving", "ending"},
           DOMAIN placed \subseteq DOMAIN placed', \A o \in DOMAIN placed : placed'[o] = placed[o]
    PROVE  StatesInv' /\ ChainInv'
  <1>1. \A s : HonestState(s, placed) => HonestState(s, placed')
    BY HonestLater
  <1>2. HonestState(link'.state, placed') /\ Current(link'.state)
    BY <1>1 DEF CaptureInv, StatesInv
  <1>3. \A s \in {disk'.state, disk'.public, copy', branch'.state, branch'.stats} \ {Capture!NoFile} :
          HonestState(s, placed')
    BY <1>1 DEF CaptureInv, StatesInv
  <1>4. StatesInv'
    BY <1>2, <1>3 DEF StatesInv, HonestState, IsState, Current, Capture!Blank, Capture!NoCounts, Capture!NoFile
  <1>5. ChainInv'
    BY DEF CaptureInv, ChainInv, Behind, Current, Capture!Blank, Capture!NoCounts, Capture!NoFile
  <1> QED
    BY <1>4, <1>5

LEMMA AccountStep ==
    ASSUME CaptureInv, UNCHANGED <<link, disk, copy, branch>>, NEW o,
           \/ Capture!Tick
           \/ o \in Orders /\ (Capture!Place(o) \/ Capture!Execute(o) \/ Capture!Appear(o))
    PROVE  CaptureInv'
  <1>1. DOMAIN placed \subseteq DOMAIN placed' /\ \A x \in DOMAIN placed : placed'[x] = placed[x]
    BY DEF Capture!Tick, Capture!Place, Capture!Execute, Capture!Appear
  <1>2. StatesInv' /\ ChainInv'
    BY <1>1, QuietCapture
  <1>3. LinkRecord'
    BY DEF CaptureInv, LinkRecord
  <1>4. clock' \in Nat /\ clock <= clock' /\ clock' >= 1
    BY DEF CaptureInv, AccountInv, Capture!Tick, Capture!Place, Capture!Execute, Capture!Appear
  <1>5. RingInv'
    <2>1. \A at \in 1..clock : at \in 1..clock'
      BY <1>4 DEF CaptureInv, AccountInv
    <2>2. \A b \in Nat : b <= clock => b <= clock'
      BY <1>4 DEF CaptureInv, AccountInv
    <2> QED
      BY <2>1, <2>2 DEF CaptureInv, RingInv
  <1>6. AccountInv'
    <2>1. \A x \in DOMAIN placed' : placed'[x] \in Nat
      BY DEF CaptureInv, AccountInv, Capture!Tick, Capture!Place, Capture!Execute, Capture!Appear
    <2>2. \A i \in DOMAIN link.orders : link.orders[i] \in DOMAIN placed'
      BY <1>1 DEF CaptureInv, AccountInv
    <2>3. /\ executed' \in Seq(Orders \cup LegacyOrders)
          /\ \A i \in DOMAIN executed' : executed'[i] \in DOMAIN placed'
      <3>1. CASE UNCHANGED executed
        BY <1>1, <3>1 DEF CaptureInv, AccountInv
      <3>2. CASE o \in Orders /\ Capture!Execute(o)
        <4>1. executed' = Append(executed, o) /\ o \in DOMAIN placed /\ UNCHANGED placed
          BY <3>2 DEF Capture!Execute
        <4>2. executed \in Seq(Orders \cup LegacyOrders) /\ o \in Orders \cup LegacyOrders
          BY <3>2 DEF CaptureInv, AccountInv
        <4>3. \A i \in DOMAIN executed : executed[i] \in DOMAIN placed
          BY DEF CaptureInv, AccountInv
        <4>4. executed' \in Seq(Orders \cup LegacyOrders)
          BY <4>1, <4>2
        <4>5. \A i \in DOMAIN executed' :
                \/ i \in DOMAIN executed /\ executed'[i] = executed[i]
                \/ executed'[i] = o
          BY <4>1, <4>2
        <4> QED
          BY <4>1, <4>3, <4>4, <4>5
      <3> QED
        BY <3>1, <3>2 DEF Capture!Tick, Capture!Place, Capture!Appear
    <2> QED
      BY <1>4, <2>1, <2>2, <2>3 DEF AccountInv
  <1> QED
    BY <1>2, <1>3, <1>5, <1>6 DEF CaptureInv

\* What the parts of the invariant say of a step of the link alone.
LEMMA LinkStep ==
    ASSUME CaptureInv, UNCHANGED <<clock, placed, executed, tape>>,
           link' = [pc |-> link'.pc, startedAt |-> link'.startedAt, restored |-> link'.restored,
                    state |-> link'.state, ring |-> link'.ring, response |-> link'.response,
                    unsampled |-> link'.unsampled, orders |-> link'.orders, passAt |-> link'.passAt],
           disk' = [state |-> disk'.state, public |-> disk'.public],
           branch' = [state |-> branch'.state, stats |-> branch'.stats],
           \A i \in DOMAIN link'.orders : link'.orders[i] \in DOMAIN placed
    PROVE  LinkRecord' /\ AccountInv'
  BY DEF CaptureInv, LinkRecord, AccountInv

LEMMA SameRing ==
    ASSUME RingInv, UNCHANGED clock, link'.ring = link.ring, link'.response = link.response
    PROVE  RingInv'
  BY DEF RingInv

LEMMA RespondStep == ASSUME CaptureInv, NEW t \in Watched, Capture!Respond(t) PROVE CaptureInv'
  <1>1. /\ link' = [link EXCEPT !.response = <<[ticker |-> t, book |-> clock]>>]
        /\ UNCHANGED <<clock, placed, executed, tape, disk, copy, branch>>
    BY DEF Capture!Respond, Capture!account
  <1>2. /\ link'.state = link.state /\ link'.restored = link.restored /\ link'.pc = link.pc
        /\ link'.ring = link.ring /\ link'.orders = link.orders
        /\ link'.response = <<[ticker |-> t, book |-> clock]>>
    BY <1>1 DEF CaptureInv, LinkRecord
  <1>3. LinkRecord' /\ AccountInv'
    BY <1>1, <1>2 DEF CaptureInv, LinkRecord, AccountInv
  <1>4. StatesInv' /\ ChainInv'
    BY <1>1, <1>2, QuietCapture
  <1>5. RingInv'
    BY <1>1, <1>2 DEF CaptureInv, RingInv, AccountInv
  <1> QED
    BY <1>3, <1>4, <1>5 DEF CaptureInv

LEMMA StampStep == ASSUME CaptureInv, Horizon \in Nat, Capture!Stamp PROVE CaptureInv'
  <1> DEFINE r == Head(link.response)
             ring == Capture!RingAdd(link.ring[r.ticker], clock, r.book)
             rings == [link.ring EXCEPT ![r.ticker] = ring]
             unsampled == link.unsampled \ {r.ticker}
  <1>1. /\ UNCHANGED <<clock, placed, executed, tape, disk, copy, branch>>
        /\ link.response # <<>>
    BY DEF Capture!Stamp, Capture!account
  <1>2. link' = [link EXCEPT !.response = <<>>, !.unsampled = unsampled, !.ring = rings]
    BY DEF Capture!Stamp, Capture!ReceivedAt
  <1>3. r.ticker \in Watched /\ r.book \in Nat /\ r.book <= clock
    <2>1. PICK t \in Watched, b \in Nat :
            b <= clock /\ link.response = <<[ticker |-> t, book |-> b]>>
      BY <1>1 DEF CaptureInv, RingInv
    <2>2. r = [ticker |-> t, book |-> b]
      BY ONLY <2>1, Head(<<[ticker |-> t, book |-> b]>>) = [ticker |-> t, book |-> b] DEF r
    <2> QED
      BY <2>1, <2>2
  <1> HIDE DEF r
  <1>4. \A at \in DOMAIN ring : at \in 1..clock /\ ring[at] \in Nat /\ ring[at] <= at
    <2>1. clock \in 1..clock
      BY DEF CaptureInv, AccountInv
    <2>2. \A at \in DOMAIN link.ring[r.ticker] :
            /\ at \in 1..clock /\ link.ring[r.ticker][at] \in Nat
            /\ link.ring[r.ticker][at] <= at
      BY <1>3 DEF CaptureInv, RingInv
    <2> QED
      BY <1>3, <2>1, <2>2 DEF Capture!RingAdd
  <1> HIDE DEF ring
  <1>5. /\ DOMAIN rings = DOMAIN link.ring /\ rings[r.ticker] = ring
        /\ \A t \in Watched : t # r.ticker => rings[t] = link.ring[t]
    BY <1>3 DEF CaptureInv, RingInv
  <1> HIDE DEF rings, unsampled
  <1>6. /\ link' = [pc |-> link'.pc, startedAt |-> link'.startedAt, restored |-> link'.restored,
                    state |-> link'.state, ring |-> link'.ring, response |-> link'.response,
                    unsampled |-> link'.unsampled, orders |-> link'.orders, passAt |-> link'.passAt]
        /\ link'.state = link.state /\ link'.restored = link.restored /\ link'.pc = link.pc
        /\ link'.ring = rings /\ link'.orders = link.orders /\ link'.response = <<>>
    BY <1>2 DEF CaptureInv, LinkRecord
  <1>7. LinkRecord' /\ AccountInv'
    BY <1>1, <1>6 DEF CaptureInv, LinkRecord, AccountInv
  <1>8. StatesInv' /\ ChainInv'
    BY <1>1, <1>6, QuietCapture
  <1>9. RingInv'
    BY <1>1, <1>4, <1>5, <1>6 DEF CaptureInv, RingInv
  <1> QED
    BY <1>7, <1>8, <1>9 DEF CaptureInv

\* The newest orders of the list are orders of the list.
LEMMA NewestAreListed ==
    ASSUME NEW S, NEW seq \in Seq(S), NEW n \in Nat, NEW i \in DOMAIN Capture!Newest(seq, n)
    PROVE  \E j \in DOMAIN seq : Capture!Newest(seq, n)[i] = seq[j]
  <1>1. CASE Len(seq) <= n
    BY <1>1 DEF Capture!Newest
  <1>2. CASE ~(Len(seq) <= n)
    <2> DEFINE first == Len(seq) - n + 1
    <2>1. Capture!Newest(seq, n) = SubSeq(seq, first, Len(seq)) /\ first \in 1..(Len(seq) + 1)
      BY <1>2 DEF Capture!Newest
    <2>2. Len(seq) \in Nat /\ first \in Nat /\ first >= 1
      BY <1>2
    <2> HIDE DEF first
    <2>3. i \in 1..(Len(seq) - first + 1)
      BY <2>1, <2>2
    <2>4. Capture!Newest(seq, n)[i] = seq[i + first - 1] /\ i + first - 1 \in 1..Len(seq)
      BY <2>1, <2>2, <2>3
    <2> QED
      BY <2>4
  <1> QED
    BY <1>1, <1>2

\* The steps of a pass that read or wait.
LEMMA PassStep ==
    ASSUME CaptureInv, UNCHANGED <<clock, placed, executed, tape, disk, copy, branch>>,
           link' = [pc |-> link'.pc, startedAt |-> link'.startedAt, restored |-> link'.restored,
                    state |-> link'.state, ring |-> link'.ring, response |-> link'.response,
                    unsampled |-> link'.unsampled, orders |-> link'.orders, passAt |-> link'.passAt],
           link.pc # "off", link'.pc \notin {"off", "saving", "ending"},
           link'.state = link.state, link'.restored = link.restored,
           link'.ring = link.ring, link'.response = link.response,
           \A i \in DOMAIN link'.orders : link'.orders[i] \in DOMAIN placed
    PROVE  CaptureInv'
  <1>1. LinkRecord' /\ AccountInv'
    BY LinkStep DEF CaptureInv, LinkRecord
  <1>2. RingInv'
    BY SameRing DEF CaptureInv
  <1>3. StatesInv' /\ ChainInv'
    BY QuietCapture
  <1> QED
    BY <1>1, <1>2, <1>3 DEF CaptureInv

LEMMA SeriesErrorStep == ASSUME CaptureInv, NEW t \in Watched, Capture!SeriesError(t) PROVE CaptureInv'
  <1>1. /\ link' = [link EXCEPT !.unsampled = @ \ {t}] /\ link.pc = "sample"
        /\ UNCHANGED <<clock, placed, executed, tape, disk, copy, branch>>
    BY DEF Capture!SeriesError, Capture!account
  <1>2. /\ link' = [pc |-> link'.pc, startedAt |-> link'.startedAt, restored |-> link'.restored,
                    state |-> link'.state, ring |-> link'.ring, response |-> link'.response,
                    unsampled |-> link'.unsampled, orders |-> link'.orders, passAt |-> link'.passAt]
        /\ link'.pc = "sample" /\ link'.state = link.state /\ link'.restored = link.restored
        /\ link'.ring = link.ring /\ link'.response = link.response /\ link'.orders = link.orders
    BY <1>1 DEF CaptureInv, LinkRecord
  <1> QED
    BY <1>1, <1>2, PassStep DEF CaptureInv, AccountInv

LEMMA ReadOrdersStep == ASSUME CaptureInv, OrderLimit \in Nat, Capture!ReadOrders PROVE CaptureInv'
  <1>1. PICK pc \in {"fills", "passed"}, orders \in {link.orders, Capture!Newest(executed, OrderLimit)} :
          link' = [link EXCEPT !.pc = pc, !.orders = orders]
    <2>1. CASE link' = [link EXCEPT !.pc = "fills", !.orders = Capture!Newest(executed, OrderLimit)]
      BY <2>1
    <2>2. CASE link' = [link EXCEPT !.pc = "passed"]
      <3>1. [link EXCEPT !.pc = "passed"] = [link EXCEPT !.pc = "passed", !.orders = link.orders]
        BY DEF CaptureInv, LinkRecord
      <3> QED
        BY <2>2, <3>1
    <2> QED
      BY <2>1, <2>2 DEF Capture!ReadOrders
  <1>2. link.pc = "sample" /\ UNCHANGED <<clock, placed, executed, tape, disk, copy, branch>>
    BY DEF Capture!ReadOrders, Capture!account
  <1>3. /\ link' = [pc |-> link'.pc, startedAt |-> link'.startedAt, restored |-> link'.restored,
                    state |-> link'.state, ring |-> link'.ring, response |-> link'.response,
                    unsampled |-> link'.unsampled, orders |-> link'.orders, passAt |-> link'.passAt]
        /\ link'.pc = pc /\ link'.state = link.state /\ link'.restored = link.restored
        /\ link'.ring = link.ring /\ link'.response = link.response /\ link'.orders = orders
    BY <1>1 DEF CaptureInv, LinkRecord
  <1>4. \A i \in DOMAIN orders : orders[i] \in DOMAIN placed
    <2>1. \A i \in DOMAIN Capture!Newest(executed, OrderLimit) :
            Capture!Newest(executed, OrderLimit)[i] \in DOMAIN placed
      BY NewestAreListed DEF CaptureInv, AccountInv
    <2> QED
      BY <2>1 DEF CaptureInv, AccountInv
  <1> QED
    BY <1>2, <1>3, <1>4, PassStep

LEMMA NextPassStep == ASSUME CaptureInv, Capture!NextPass PROVE CaptureInv'
  <1>1. /\ link' = [link EXCEPT !.pc = "sample", !.unsampled = Watched, !.passAt = clock]
        /\ link.pc \in {"passed", "saved"}
        /\ UNCHANGED <<clock, placed, executed, tape, disk, copy, branch>>
    BY DEF Capture!NextPass, Capture!Pass, Capture!account
  <1>2. /\ link' = [pc |-> link'.pc, startedAt |-> link'.startedAt, restored |-> link'.restored,
                    state |-> link'.state, ring |-> link'.ring, response |-> link'.response,
                    unsampled |-> link'.unsampled, orders |-> link'.orders, passAt |-> link'.passAt]
        /\ link'.pc = "sample" /\ link'.state = link.state /\ link'.restored = link.restored
        /\ link'.ring = link.ring /\ link'.response = link.response /\ link'.orders = link.orders
    BY <1>1 DEF CaptureInv, LinkRecord
  <1> QED
    BY <1>1, <1>2, PassStep DEF CaptureInv, AccountInv

\* What a step that only grows the memory does to the chain of copies.
LEMMA MemoryGrows ==
    ASSUME CaptureInv, UNCHANGED <<placed, disk, copy, branch>>,
           link.pc # "off", link'.pc \notin {"off", "saving", "ending"},
           link'.restored = link.restored, HonestState(link'.state, placed), Current(link'.state),
           Behind(link.state, link'.state)
    PROVE  StatesInv' /\ ChainInv'
  <1>1. StatesInv'
    BY DEF CaptureInv, StatesInv, HonestState, IsState, Current, Capture!Blank, Capture!NoCounts, Capture!NoFile
  <1>2. \A s : Behind(s, link.state) => Behind(s, link'.state)
    BY BehindBehind
  <1>3. ChainInv'
    BY <1>2 DEF CaptureInv, ChainInv, Behind, Current, Capture!Blank, Capture!NoCounts, Capture!NoFile
  <1> QED
    BY <1>1, <1>3

LEMMA ReadFillsStep == ASSUME CaptureInv, Capture!ReadFills PROVE CaptureInv'
  <1>1. /\ link.pc = "fills"
        /\ UNCHANGED <<clock, placed, executed, tape, disk, copy, branch>>
    BY DEF Capture!ReadFills, Capture!account
  <1>2. PICK state \in {link.state, Capture!Processed(link.state)} :
          link' = [link EXCEPT !.pc = "passed", !.orders = <<>>, !.state = state]
    BY DEF Capture!ReadFills
  <1>3. /\ link' = [pc |-> link'.pc, startedAt |-> link'.startedAt, restored |-> link'.restored,
                    state |-> link'.state, ring |-> link'.ring, response |-> link'.response,
                    unsampled |-> link'.unsampled, orders |-> link'.orders, passAt |-> link'.passAt]
        /\ link'.pc = "passed" /\ link'.state = state /\ link'.restored = link.restored
        /\ link'.ring = link.ring /\ link'.response = link.response /\ link'.orders = <<>>
    BY <1>2 DEF CaptureInv, LinkRecord
  <1>4. HonestState(state, placed) /\ Current(state) /\ Behind(link.state, state)
    <2>1. HonestState(link.state, placed) /\ Current(link.state) /\ Behind(link.state, link.state)
      BY DEF CaptureInv, StatesInv, Behind
    <2> QED
      BY <2>1, ProcessedIsHonest
  <1>5. LinkRecord' /\ AccountInv'
    BY <1>1, <1>3 DEF CaptureInv, LinkRecord, AccountInv
  <1>6. RingInv'
    BY <1>1, <1>3, SameRing DEF CaptureInv
  <1>7. StatesInv' /\ ChainInv'
    BY <1>1, <1>3, <1>4, MemoryGrows
  <1> QED
    BY <1>5, <1>6, <1>7 DEF CaptureInv

\* A link begins from the branch, or from nothing when it cannot be restored.
LEMMA BeginStep == ASSUME CaptureInv, Capture!Start PROVE CaptureInv'
  <1> DEFINE kept == IF branch.state = Capture!NoFile THEN Capture!Blank
                     ELSE Capture!Reopened(branch.state)
             empty == [t \in Watched |-> Capture!NoSnapshots]
  <1>1. /\ link.pc = "off"
        /\ UNCHANGED <<clock, placed, executed, tape, disk, copy, branch>>
    BY DEF Capture!Start, Capture!account
  <1>2. PICK restored \in BOOLEAN, state \in {kept, Capture!Blank} :
          /\ restored => state = kept
          /\ link' = [pc |-> "sample", startedAt |-> clock, restored |-> restored, state |-> state,
                      ring |-> empty, response |-> <<>>, unsampled |-> Watched, orders |-> <<>>,
                      passAt |-> clock]
    <2>1. CASE link' = Capture!Pass([Capture!Off EXCEPT !.startedAt = clock, !.state = kept])
      <3>1. link' = [pc |-> "sample", startedAt |-> clock, restored |-> TRUE, state |-> kept,
                      ring |-> empty, response |-> <<>>, unsampled |-> Watched, orders |-> <<>>,
                      passAt |-> clock]
        BY <2>1 DEF Capture!Pass, Capture!Off
      <3> QED
        BY <3>1
    <2>2. CASE link' = Capture!Pass([Capture!Off EXCEPT !.startedAt = clock, !.restored = FALSE])
      <3>1. link' = [pc |-> "sample", startedAt |-> clock, restored |-> FALSE, state |-> Capture!Blank,
                      ring |-> empty, response |-> <<>>, unsampled |-> Watched, orders |-> <<>>,
                      passAt |-> clock]
        BY <2>2 DEF Capture!Pass, Capture!Off
      <3> QED
        BY <3>1
    <2> QED
      BY <2>1, <2>2 DEF Capture!Start
  <1>3. HonestState(Capture!Blank, placed) /\ Current(Capture!Blank)
    BY DEF HonestState, IsState, Current, Capture!Blank, Capture!NoCounts
  <1>4. HonestState(kept, placed) /\ Current(kept)
    BY <1>3, ReopenedIsHonest DEF CaptureInv, StatesInv
  <1>5. branch.state # Capture!NoFile /\ Current(branch.state) => Behind(branch.state, kept)
    BY ReopenedIsHonest DEF CaptureInv, StatesInv
  <1>6. \A t \in Watched : DOMAIN empty[t] = {}
    BY DEF Capture!NoSnapshots
  <1>7. DOMAIN empty = Watched
    OBVIOUS
  <1> HIDE DEF kept, empty
  <1>8. LinkRecord' /\ AccountInv'
    BY <1>1, <1>2 DEF CaptureInv, LinkRecord, AccountInv
  <1>9. RingInv'
    BY <1>2, <1>6, <1>7 DEF RingInv
  <1>10. StatesInv'
    BY <1>1, <1>2, <1>3, <1>4
    DEF CaptureInv, StatesInv, HonestState, IsState, Current, Capture!Blank, Capture!NoCounts, Capture!NoFile
  <1>11. link'.pc = "sample" /\ link'.restored = restored /\ link'.state = state
    BY <1>2
  <1>12. /\ disk.state = Capture!NoFile /\ disk.public = Capture!NoFile /\ copy = Capture!NoFile
         /\ branch.stats # Capture!NoFile =>
              /\ branch.state # Capture!NoFile /\ Behind(branch.stats, branch.state)
              /\ Current(branch.stats) => Current(branch.state)
    BY <1>1 DEF CaptureInv, ChainInv
  <1>13. restored /\ branch.stats # Capture!NoFile /\ Current(branch.stats) =>
           Behind(branch.stats, state)
    BY <1>2, <1>5, <1>12, BehindBehind
  <1>14. ChainInv'
    BY <1>1, <1>11, <1>12, <1>13
    DEF ChainInv, Behind, Current, Capture!Blank, Capture!NoCounts, Capture!NoFile
  <1> QED
    BY <1>8, <1>9, <1>10, <1>14 DEF CaptureInv

\* The parts that a step of the files alone leaves as they are.
LEMMA FilesStep ==
    ASSUME CaptureInv, UNCHANGED <<clock, placed, executed, tape>>,
           link' = [pc |-> link'.pc, startedAt |-> link'.startedAt, restored |-> link'.restored,
                    state |-> link'.state, ring |-> link'.ring, response |-> link'.response,
                    unsampled |-> link'.unsampled, orders |-> link'.orders, passAt |-> link'.passAt],
           disk' = [state |-> disk'.state, public |-> disk'.public],
           branch' = [state |-> branch'.state, stats |-> branch'.stats],
           link'.ring = link.ring, link'.response = link.response, link'.orders = link.orders
    PROVE  LinkRecord' /\ AccountInv' /\ RingInv'
  <1>1. LinkRecord' /\ AccountInv'
    BY LinkStep DEF CaptureInv, AccountInv
  <1> QED
    BY <1>1, SameRing DEF CaptureInv

\* A state is not the absence of a file.
LEMMA AState == ASSUME NEW s, IsState(s) PROVE s # Capture!NoFile
  <1>1. "version" \in DOMAIN s
    BY DEF IsState
  <1>2. "version" \notin DOMAIN Capture!NoFile
    BY DEF Capture!NoFile
  <1> QED
    BY <1>1, <1>2

LEMMA SaveFirstStep == ASSUME CaptureInv, Capture!SaveFirst PROVE CaptureInv'
  <1>1. /\ link.pc = "passed" /\ disk' = [disk EXCEPT !.state = link.state]
        /\ UNCHANGED <<clock, placed, executed, tape, copy, branch>>
    BY DEF Capture!SaveFirst, Capture!FirstSaved, Capture!account
  <1>2. PICK next \in {"saving", "ending"} : link' = [link EXCEPT !.pc = next]
    BY DEF Capture!SaveFirst
  <1>3. /\ link' = [pc |-> link'.pc, startedAt |-> link'.startedAt, restored |-> link'.restored,
                    state |-> link'.state, ring |-> link'.ring, response |-> link'.response,
                    unsampled |-> link'.unsampled, orders |-> link'.orders, passAt |-> link'.passAt]
        /\ link'.pc = next /\ link'.state = link.state /\ link'.restored = link.restored
        /\ link'.ring = link.ring /\ link'.response = link.response /\ link'.orders = link.orders
    BY <1>2 DEF CaptureInv, LinkRecord
  <1>4. /\ disk' = [state |-> disk'.state, public |-> disk'.public]
        /\ disk'.state = link.state /\ disk'.public = disk.public
    BY <1>1 DEF CaptureInv, LinkRecord
  <1>5. LinkRecord' /\ AccountInv' /\ RingInv'
    BY <1>1, <1>3, <1>4, FilesStep DEF CaptureInv, LinkRecord
  <1>6. HonestState(link.state, placed) /\ Current(link.state)
    BY DEF CaptureInv, StatesInv
  <1>7. StatesInv'
    BY <1>1, <1>3, <1>4, <1>6
    DEF CaptureInv, StatesInv, HonestState, IsState, Current, Capture!Blank, Capture!NoCounts, Capture!NoFile
  <1>8. disk.public # Capture!NoFile => Behind(disk.public, link.state)
    BY BehindBehind DEF CaptureInv, ChainInv
  <1>9. Behind(link.state, link.state)
    BY DEF Behind
  <1>10. link.state # Capture!NoFile
    BY <1>6, AState DEF HonestState
  <1>11. ChainInv'
    BY <1>1, <1>3, <1>4, <1>6, <1>8, <1>9, <1>10
    DEF CaptureInv, ChainInv, Behind, Current, Capture!Blank, Capture!NoCounts, Capture!NoFile
  <1> QED
    BY <1>5, <1>7, <1>11 DEF CaptureInv

LEMMA SaveSecondStep == ASSUME CaptureInv, Capture!SaveSecond PROVE CaptureInv'
  <1>1. /\ link.pc \in {"saving", "ending"} /\ disk' = [disk EXCEPT !.public = link.state]
        /\ UNCHANGED <<clock, placed, executed, tape, copy, branch>>
    BY DEF Capture!SaveSecond, Capture!FirstSaved, Capture!account
  <1>2. PICK next \in {"done", "saved"} : link' = [link EXCEPT !.pc = next]
    BY DEF Capture!SaveSecond
  <1>3. /\ link' = [pc |-> link'.pc, startedAt |-> link'.startedAt, restored |-> link'.restored,
                    state |-> link'.state, ring |-> link'.ring, response |-> link'.response,
                    unsampled |-> link'.unsampled, orders |-> link'.orders, passAt |-> link'.passAt]
        /\ link'.pc = next /\ link'.state = link.state /\ link'.restored = link.restored
        /\ link'.ring = link.ring /\ link'.response = link.response /\ link'.orders = link.orders
    BY <1>2 DEF CaptureInv, LinkRecord
  <1>4. /\ disk' = [state |-> disk'.state, public |-> disk'.public]
        /\ disk'.state = disk.state /\ disk'.public = link.state
    BY <1>1 DEF CaptureInv, LinkRecord
  <1>5. LinkRecord' /\ AccountInv' /\ RingInv'
    BY <1>1, <1>3, <1>4, FilesStep DEF CaptureInv, LinkRecord
  <1>6. HonestState(link.state, placed) /\ Current(link.state)
    BY DEF CaptureInv, StatesInv
  <1>7. StatesInv'
    BY <1>1, <1>3, <1>4, <1>6
    DEF CaptureInv, StatesInv, HonestState, IsState, Current, Capture!Blank, Capture!NoCounts, Capture!NoFile
  <1>8. disk.state = link.state /\ link.state # Capture!NoFile /\ Behind(link.state, link.state)
    BY <1>1, <1>6, AState DEF CaptureInv, ChainInv, HonestState, Behind
  <1>9. copy # Capture!NoFile => Behind(copy, link.state)
    BY BehindBehind DEF CaptureInv, ChainInv
  <1>10. ChainInv'
    BY <1>1, <1>3, <1>4, <1>6, <1>8, <1>9
    DEF CaptureInv, ChainInv, Behind, Current, Capture!Blank, Capture!NoCounts, Capture!NoFile
  <1> QED
    BY <1>5, <1>7, <1>10 DEF CaptureInv

LEMMA CopyPublicStep == ASSUME CaptureInv, Capture!CopyPublic PROVE CaptureInv'
  <1>1. /\ link.pc # "off" /\ disk.public # Capture!NoFile /\ copy' = disk.public
        /\ UNCHANGED <<clock, placed, executed, tape, link, disk, branch>>
    BY DEF Capture!CopyPublic, Capture!account
  <1>2. LinkRecord' /\ AccountInv' /\ RingInv'
    BY <1>1, FilesStep DEF CaptureInv, LinkRecord
  <1>3. StatesInv'
    BY <1>1
    DEF CaptureInv, StatesInv, HonestState, IsState, Current, Capture!Blank, Capture!NoCounts, Capture!NoFile
  <1>4. Behind(disk.public, disk.public)
    BY DEF Behind
  <1>5. ChainInv'
    BY <1>1, <1>4
    DEF CaptureInv, ChainInv, Behind, Current, Capture!Blank, Capture!NoCounts, Capture!NoFile
  <1> QED
    BY <1>2, <1>3, <1>5 DEF CaptureInv

\* What is pushed is a copy of the public file, behind the state beside it.
LEMMA PushStep == ASSUME CaptureInv, Capture!CopyStateAndPush PROVE CaptureInv'
  <1>1. /\ copy # Capture!NoFile /\ copy' = Capture!NoFile
        /\ branch' = [state |-> disk.state, stats |-> copy] \/ UNCHANGED branch
        /\ UNCHANGED <<clock, placed, executed, tape, link, disk>>
    BY DEF Capture!CopyStateAndPush, Capture!account
  <1>2. LinkRecord' /\ AccountInv' /\ RingInv'
    BY <1>1, FilesStep DEF CaptureInv, LinkRecord
  <1>3. StatesInv'
    BY <1>1
    DEF CaptureInv, StatesInv, HonestState, IsState, Current, Capture!Blank, Capture!NoCounts, Capture!NoFile
  <1>4. /\ disk.public # Capture!NoFile /\ disk.state # Capture!NoFile /\ link.pc # "off"
        /\ Current(copy) /\ Current(disk.state)
        /\ Behind(copy, disk.public) /\ Behind(disk.public, disk.state) /\ Behind(disk.state, link.state)
    BY <1>1 DEF CaptureInv, ChainInv
  <1>5. Behind(copy, disk.state) /\ Behind(copy, link.state)
    BY <1>4, BehindBehind
  <1>6. CASE branch' = [state |-> disk.state, stats |-> copy]
    <2>1. branch'.state = disk.state /\ branch'.stats = copy
      BY <1>6
    <2>2. ChainInv'
      BY <1>1, <1>4, <1>5, <2>1
      DEF CaptureInv, ChainInv, Behind, Current, Capture!Blank, Capture!NoCounts, Capture!NoFile
    <2> QED
      BY <1>2, <1>3, <2>2 DEF CaptureInv
  <1>7. CASE UNCHANGED branch
    <2>1. ChainInv'
      BY <1>1, <1>7
      DEF CaptureInv, ChainInv, Behind, Current, Capture!Blank, Capture!NoCounts, Capture!NoFile
    <2> QED
      BY <1>2, <1>3, <2>1 DEF CaptureInv
  <1> QED
    BY <1>1, <1>6, <1>7

LEMMA JobEndsStep == ASSUME CaptureInv, Capture!JobEnds PROVE CaptureInv'
  <1>1. /\ link' = Capture!Off /\ copy' = Capture!NoFile
        /\ disk' = [state |-> Capture!NoFile, public |-> Capture!NoFile]
        /\ UNCHANGED <<clock, placed, executed, tape, branch>>
    BY DEF Capture!JobEnds, Capture!account
  <1>2. /\ link' = [pc |-> link'.pc, startedAt |-> link'.startedAt, restored |-> link'.restored,
                    state |-> link'.state, ring |-> link'.ring, response |-> link'.response,
                    unsampled |-> link'.unsampled, orders |-> link'.orders, passAt |-> link'.passAt]
        /\ link'.pc = "off" /\ link'.state = Capture!Blank /\ link'.response = <<>>
        /\ link'.orders = <<>> /\ link'.ring = [t \in Watched |-> Capture!NoSnapshots]
    BY <1>1 DEF Capture!Off
  <1>3. LinkRecord' /\ AccountInv'
    BY <1>1, <1>2, LinkStep DEF CaptureInv, LinkRecord
  <1>4. RingInv'
    BY <1>2 DEF RingInv, Capture!NoSnapshots
  <1>5. HonestState(Capture!Blank, placed) /\ Current(Capture!Blank)
    BY DEF HonestState, IsState, Current, Capture!Blank, Capture!NoCounts
  <1>6. StatesInv'
    BY <1>1, <1>2, <1>5
    DEF CaptureInv, StatesInv, HonestState, IsState, Current, Capture!Blank, Capture!NoCounts, Capture!NoFile
  <1>7. ChainInv'
    BY <1>1, <1>2
    DEF CaptureInv, ChainInv, Behind, Current, Capture!Blank, Capture!NoCounts, Capture!NoFile
  <1> QED
    BY <1>3, <1>4, <1>6, <1>7 DEF CaptureInv

\* The executed orders in some order, each once.
LEMMA SomeSequence ==
    ASSUME NEW S, IsFiniteSet(S)
    PROVE  Capture!SetToSeq(S) \in Seq(S)
  <1>1. Capture!Cardinality(S) = Cardinality(S)
    BY DEF Capture!Cardinality, Cardinality
  <1>2. Cardinality(S) \in Nat /\ ExistsBijection(1..Cardinality(S), S)
    BY FS_CardinalityType
  <1>3. PICK f : f \in [1..Cardinality(S) -> S] /\ Capture!IsInjective(f)
    BY <1>2, FS_CardinalityType DEF ExistsBijection, Bijection, Injection, IsInjective, Capture!IsInjective
  <1>4. Capture!SetToSeq(S) \in [1..Cardinality(S) -> S]
    BY <1>1, <1>3 DEF Capture!SetToSeq
  <1> QED
    BY <1>2, <1>4

LEMMA CaptureInitially ==
    ASSUME IsFiniteSet(LegacyOrders), Capture!Init
    PROVE  CaptureInv
  <1> DEFINE listed == Capture!SetToSeq(LegacyOrders)
  <1>1. /\ clock = 1 /\ placed = [o \in LegacyOrders |-> 0] /\ executed = listed
        /\ link = Capture!Off /\ disk = [state |-> Capture!NoFile, public |-> Capture!NoFile]
        /\ copy = Capture!NoFile
        /\ \/ branch = [state |-> Capture!NoFile, stats |-> Capture!NoFile]
           \/ branch = [state |-> Capture!Legacy, stats |-> Capture!Legacy]
    BY DEF Capture!Init
  <1>2. listed \in Seq(LegacyOrders)
    BY SomeSequence
  <1> HIDE DEF listed
  <1>3. executed \in Seq(Orders \cup LegacyOrders) /\ \A i \in DOMAIN executed : executed[i] \in LegacyOrders
    BY <1>1, <1>2
  <1>4. /\ link = [pc |-> link.pc, startedAt |-> link.startedAt, restored |-> link.restored,
                   state |-> link.state, ring |-> link.ring, response |-> link.response,
                   unsampled |-> link.unsampled, orders |-> link.orders, passAt |-> link.passAt]
        /\ link.pc = "off" /\ link.state = Capture!Blank /\ link.response = <<>>
        /\ link.orders = <<>> /\ link.ring = [t \in Watched |-> Capture!NoSnapshots]
    BY <1>1 DEF Capture!Off
  <1>5. LinkRecord
    BY <1>1, <1>4 DEF LinkRecord
  <1>6. AccountInv
    BY <1>1, <1>3, <1>4 DEF AccountInv
  <1>7. RingInv
    BY <1>4 DEF RingInv, Capture!NoSnapshots
  <1>8. HonestState(Capture!Blank, placed) /\ Current(Capture!Blank)
    BY DEF HonestState, IsState, Current, Capture!Blank, Capture!NoCounts
  <1>9. HonestState(Capture!Legacy, placed)
    <2> DEFINE counted == [o \in LegacyOrders |-> [status |-> "unverified", book |-> 0]]
    <2>1. Capture!Legacy = [version |-> "none", counted |-> counted, historical |-> {}, ignored |-> {}]
      BY DEF Capture!Legacy
    <2>2. \A o \in DOMAIN counted : counted[o].status # "ENTRY_FRESH"
      OBVIOUS
    <2> HIDE DEF counted
    <2> QED
      BY <2>1, <2>2 DEF HonestState, IsState
  <1>10. StatesInv
    BY <1>1, <1>4, <1>8, <1>9 DEF StatesInv
  <1>11. ChainInv
    <2>1. Capture!Legacy # Capture!NoFile
      BY <1>9, AState DEF HonestState
    <2>2. Behind(Capture!Legacy, Capture!Legacy)
      BY DEF Behind
    <2> QED
      BY <1>1, <1>4, <2>1, <2>2 DEF ChainInv
  <1> QED
    BY <1>5, <1>6, <1>7, <1>10, <1>11 DEF CaptureInv

LEMMA CaptureKeeps ==
    ASSUME Horizon \in Nat, OrderLimit \in Nat, CaptureInv, [Capture!Next]_captureVars
    PROVE  CaptureInv'
  <1>1. ASSUME Capture!Tick \/ \E o \in Orders : Capture!Place(o) \/ Capture!Execute(o) \/ Capture!Appear(o)
        PROVE  CaptureInv'
    BY <1>1, AccountStep DEF Capture!Tick, Capture!Place, Capture!Execute, Capture!Appear
  <1>2. ASSUME NEW t \in Watched, Capture!Respond(t) \/ Capture!SeriesError(t) PROVE CaptureInv'
    BY <1>2, RespondStep, SeriesErrorStep
  <1>3. ASSUME Capture!Start \/ Capture!Stamp \/ Capture!ReadOrders \/ Capture!ReadFills \/ Capture!NextPass
        PROVE  CaptureInv'
    BY <1>3, BeginStep, StampStep, ReadOrdersStep, ReadFillsStep, NextPassStep
  <1>4. ASSUME Capture!SaveFirst \/ Capture!SaveSecond \/ Capture!CopyPublic
                 \/ Capture!CopyStateAndPush \/ Capture!JobEnds
        PROVE  CaptureInv'
    BY <1>4, SaveFirstStep, SaveSecondStep, CopyPublicStep, PushStep, JobEndsStep
  <1>5. CASE UNCHANGED captureVars
    <2>1. UNCHANGED <<clock, placed, executed, tape, link, disk, copy, branch>>
      BY <1>5 DEF captureVars
    <2>2. LinkRecord' /\ AccountInv' /\ RingInv'
      BY <2>1 DEF CaptureInv, LinkRecord, AccountInv, RingInv
    <2>3. StatesInv' /\ ChainInv'
      BY <2>1, QuietCapture
    <2> QED
      BY <2>2, <2>3 DEF CaptureInv
  <1> QED
    BY <1>1, <1>2, <1>3, <1>4, <1>5 DEF Capture!Next

LEMMA CaptureSteps == [NextAlongside]_vars => [Capture!Next]_captureVars
  BY DEF NextAlongside, vars

\* A fresh entry quote, in memory, on disk or on the branch, is of a book shown
\* before its order was placed, however samples, placements, saves, kills and
\* restarts came, and no order is counted twice over (Ring.latest_at_or_before,
\* process_orders).
THEOREM FreshQuotesAreHonest == Spec => []EntryQuotesAreHonest
  <1> USE BoundsAreNumbers, LegacyIsFinite
  <1>1. InitAlongside => CaptureInv
    BY CaptureInitially DEF InitAlongside
  <1>2. CaptureInv /\ [NextAlongside]_vars => CaptureInv'
    BY CaptureSteps, CaptureKeeps
  <1>3. CaptureInv => EntryQuotesAreHonest
    BY DEF CaptureInv, StatesInv, HonestState, EntryQuotesAreHonest, Capture!EntryQuotesAreHonest
  <1> QED
    BY <1>1, <1>2, <1>3, PTL DEF Spec

\* What was published stays published and unchanged, until a link that could
\* not restore the branch pushes over it or the old axis is retired: a link
\* only adds to what it restored, and its files follow its memory (save,
\* publish).
THEOREM TotalsNeverDrop == Spec => PublishedTotalsNeverDrop
  <1> USE BoundsAreNumbers, LegacyIsFinite
  <1> DEFINE Kept == (branch.stats # Capture!NoFile /\ branch.stats.version = Capture!Blank.version
                        /\ link.restored) =>
                       \A o \in DOMAIN branch.stats.counted :
                         /\ o \in DOMAIN branch'.stats.counted
                         /\ branch'.stats.counted[o] = branch.stats.counted[o]
  <1>1. InitAlongside => CaptureInv
    BY CaptureInitially DEF InitAlongside
  <1>2. CaptureInv /\ [NextAlongside]_vars => CaptureInv'
    BY CaptureSteps, CaptureKeeps
  <1>3. CaptureInv /\ [NextAlongside]_vars => [Kept]_branch
    <2>1. SUFFICES ASSUME CaptureInv, [Capture!Next]_captureVars, branch' # branch PROVE Kept
      BY CaptureSteps
    <2>2. Capture!CopyStateAndPush
      BY <2>1 DEF Capture!Next, captureVars, Capture!Tick, Capture!Place, Capture!Execute, Capture!Appear,
           Capture!Start, Capture!Respond, Capture!SeriesError, Capture!Stamp, Capture!ReadOrders,
           Capture!ReadFills, Capture!NextPass, Capture!SaveFirst, Capture!SaveSecond,
           Capture!CopyPublic, Capture!JobEnds
    <2>3. branch'.stats = copy /\ copy # Capture!NoFile
      BY <2>1, <2>2 DEF Capture!CopyStateAndPush
    <2>4. link.pc # "off"
      BY <2>1, <2>3 DEF CaptureInv, ChainInv
    <2>5. branch.stats # Capture!NoFile /\ Current(branch.stats) /\ link.restored => Behind(branch.stats, copy)
      BY <2>1, <2>3, <2>4 DEF CaptureInv, ChainInv
    <2> QED
      BY <2>3, <2>5 DEF Behind, Current
  <1> QED
    BY <1>1, <1>2, <1>3, PTL DEF Spec, PublishedTotalsNeverDrop, Capture!PublishedTotalsNeverDrop

-----------------------------------------------------------------------------
(* The backfill.                                                           *)

LEMMA SumsAreSums == \A f, S : CatchUp!SumOver(f, S) = SumOver(f, S)
  BY DEF CatchUp!SumOver, SumOver, CatchUp!FoldSet, FoldSet, CatchUp!MapThenFoldSet, MapThenFoldSet

\* A row of a wager carries every field that is compared, in its destination's words.
LEMMA RowReads ==
    ASSUME NEW w
    PROVE  LET row == CatchUp!Row(sport, w) IN
           /\ \A field \in {"key", "ticker", "side", "stake", "price"} : CatchUp!Carries(sport, row, field)
           /\ CatchUp!Reads(sport, row, "key") = w.key
           /\ CatchUp!Reads(sport, row, "ticker") = w.ticker
           /\ CatchUp!Reads(sport, row, "side") = w.side
           /\ CatchUp!Reads(sport, row, "price") = w.price
           /\ row.stake = w.stake
  <1>1. CASE sport = "MLB"
    BY <1>1 DEF CatchUp!Row, CatchUp!MlbRow, CatchUp!Carries, CatchUp!Reads, CatchUp!Vocabulary
  <1>2. CASE sport = "NFL"
    BY <1>2 DEF CatchUp!Row, CatchUp!NflRow, CatchUp!Carries, CatchUp!Reads, CatchUp!Vocabulary
  <1>3. CASE sport \notin {"MLB", "NFL"}
    BY <1>3 DEF CatchUp!Row, CatchUp!SharedRow, CatchUp!Carries, CatchUp!Reads, CatchUp!Vocabulary
  <1> QED
    BY <1>1, <1>2, <1>3

\* A row typed in carries no key.
LEMMA HandRowHasNoKey ==
    ASSUME NEW w, NEW stake, NEW priced \in BOOLEAN
    PROVE  ~CatchUp!Carries(sport, CatchUp!HandRow(w, stake, priced), "key")
  <1>1. CASE sport = "MLB"
    BY <1>1 DEF CatchUp!HandRow, CatchUp!Carries, CatchUp!Vocabulary
  <1>2. CASE sport = "NFL"
    BY <1>2 DEF CatchUp!HandRow, CatchUp!Carries, CatchUp!Vocabulary
  <1>3. CASE sport \notin {"MLB", "NFL"}
    BY <1>3 DEF CatchUp!HandRow, CatchUp!Carries, CatchUp!Vocabulary
  <1> QED
    BY <1>1, <1>2, <1>3

-----------------------------------------------------------------------------
(* What is read of the fills.                                              *)

LEMMA CardinalsAreCardinals == \A S : CatchUp!Cardinality(S) = Cardinality(S)
  BY DEF CatchUp!Cardinality, Cardinality, CatchUp!IsFiniteSet, IsFiniteSet

\* An object whose words agree names the contract of its fill.
LEMMA WordsThatAgree ==
    ASSUME NEW raw, NEW f, CatchUp!Directed(raw), CatchUp!Describes(raw, f)
    PROVE  CatchUp!Contract(raw) = f.contract
  <1> DEFINE words == CatchUp!Contracts(raw)
  <1>1. IsFiniteSet(words)
    <2>1. ASSUME NEW a, NEW b, NEW c PROVE IsFiniteSet({a, b, c})
      <3>1. IsFiniteSet({a} \cup {b})
        BY FS_Singleton, FS_AddElement
      <3>2. IsFiniteSet(({a} \cup {b}) \cup {c})
        BY <3>1, FS_AddElement
      <3>3. {a, b, c} = ({a} \cup {b}) \cup {c}
        OBVIOUS
      <3> QED
        BY <3>2, <3>3
    <2>2. ASSUME NEW a, NEW b, NEW c PROVE IsFiniteSet({a, b, c} \ {"absent"})
      BY <2>1, FS_RemoveElement
    <2> QED
      BY <2>2 DEF CatchUp!Contracts
  <1>2. Cardinality(words) = 1
    BY CardinalsAreCardinals DEF CatchUp!Directed
  <1> HIDE DEF words
  <1>3. PICK c : words = {c}
    BY <1>1, <1>2, FS_Singleton
  <1> USE DEF words
  <1> QED
    BY <1>3 DEF CatchUp!Contract, CatchUp!Describes

\* What was read of a fill is the fill's, or unknown.
Tells(n, f) ==
    /\ n.id = f.id /\ n.order = f.order
    /\ n.contract = f.contract /\ n.count = f.count
    /\ n.price \in {CatchUp!YesLeg(f), CatchUp!None} /\ n.fee \in {f.fee, CatchUp!None}

LEMMA NormalizedTells ==
    ASSUME NEW raw, NEW f \in Traded, CatchUp!Readable(raw), CatchUp!Describes(raw, f)
    PROVE  Tells(CatchUp!Normalize(raw), f)
  <1>1. CatchUp!Contract(raw) = f.contract
    BY WordsThatAgree DEF CatchUp!Readable
  <1>2. f.price \in Int
    BY TradesAreTrades
  <1>3. CatchUp!Proven(raw) => CatchUp!AxisPrice(raw) \in {CatchUp!YesLeg(f), CatchUp!None}
    BY <1>2 DEF CatchUp!AxisPrice, CatchUp!Describes, CatchUp!YesLeg, CatchUp!Whole, CatchUp!None
  <1> QED
    BY <1>1, <1>3 DEF Tells, CatchUp!Normalize, CatchUp!Describes

LEMMA AcceptedTells ==
    ASSUME raws \in Servable
    PROVE  /\ \A n \in CatchUp!Accepted(raws) : \E f \in Traded : Tells(n, f)
           /\ \A n, m \in CatchUp!Accepted(raws) : n.id = m.id => n = m
  <1>1. ASSUME NEW n \in CatchUp!Accepted(raws)
        PROVE  \E raw \in raws : CatchUp!Readable(raw) /\ n = CatchUp!Normalize(raw) /\ n.id = raw.id
    BY DEF CatchUp!Accepted, CatchUp!Normalize
  <1>2. ASSUME NEW n \in CatchUp!Accepted(raws) PROVE \E f \in Traded : Tells(n, f)
    <2>1. PICK raw \in raws : CatchUp!Readable(raw) /\ n = CatchUp!Normalize(raw)
      BY <1>1
    <2>2. PICK f \in Traded : CatchUp!Describes(raw, f)
      BY ServedAreTraded
    <2> QED
      BY <2>1, <2>2, NormalizedTells
  <1>3. ASSUME NEW n \in CatchUp!Accepted(raws), NEW m \in CatchUp!Accepted(raws), n.id = m.id PROVE n = m
    BY <1>1, <1>3, ServedAreTraded
  <1> QED
    BY <1>2, <1>3

-----------------------------------------------------------------------------
(* What is rebuilt of an order.                                            *)

\* The fills read of an order, and those there were.
OwnFills(o) == {n \in CatchUp!Accepted(raws) : n.order = o}
TradedIn(o) == {f \in Traded : f.order = o}
ReadWhole(o) == {f.id : f \in TradedIn(o)} \subseteq {n.id : n \in CatchUp!Accepted(raws)}

\* Where every fill of an order was read, each was read once.
ReadOf(o) == [f \in TradedIn(o) |-> CHOOSE n \in OwnFills(o) : n.id = f.id]

LEMMA OneReadPerFill ==
    ASSUME raws \in Servable, NEW o, ReadWhole(o)
    PROVE  /\ OwnFills(o) = {ReadOf(o)[f] : f \in TradedIn(o)}
           /\ \A f \in TradedIn(o) : Tells(ReadOf(o)[f], f)
           /\ \A f, g \in TradedIn(o) : ReadOf(o)[f] = ReadOf(o)[g] => f = g
  <1>1. ASSUME NEW f \in TradedIn(o) PROVE ReadOf(o)[f] \in OwnFills(o) /\ Tells(ReadOf(o)[f], f)
    <2>1. PICK n \in CatchUp!Accepted(raws) : n.id = f.id
      BY DEF ReadWhole
    <2>2. ASSUME NEW m \in CatchUp!Accepted(raws), m.id = f.id PROVE Tells(m, f)
      <3>1. PICK g \in Traded : Tells(m, g)
        BY AcceptedTells
      <3>2. g = f
        BY <2>2, <3>1, TradesAreTrades DEF Tells, TradedIn
      <3> QED
        BY <3>1, <3>2
    <2>3. n \in OwnFills(o)
      BY <2>1, <2>2 DEF OwnFills, TradedIn, Tells
    <2>4. ReadOf(o)[f] \in OwnFills(o) /\ ReadOf(o)[f].id = f.id
      BY <2>1, <2>3 DEF ReadOf
    <2> QED
      BY <2>2, <2>4 DEF OwnFills
  <1>2. ASSUME NEW n \in OwnFills(o) PROVE \E f \in TradedIn(o) : n = ReadOf(o)[f]
    <2>1. PICK f \in Traded : Tells(n, f)
      BY AcceptedTells DEF OwnFills
    <2>2. f \in TradedIn(o)
      BY <2>1 DEF TradedIn, Tells, OwnFills
    <2>3. ReadOf(o)[f].id = n.id /\ ReadOf(o)[f] \in OwnFills(o)
      BY <1>1, <2>1, <2>2 DEF Tells
    <2>4. ReadOf(o)[f] = n
      BY <2>3, AcceptedTells DEF OwnFills
    <2> QED
      BY <2>2, <2>4
  <1>3. ASSUME NEW f \in TradedIn(o), NEW g \in TradedIn(o), ReadOf(o)[f] = ReadOf(o)[g] PROVE f = g
    BY <1>1, <1>3, TradesAreTrades DEF Tells, TradedIn
  <1> QED
    BY <1>1, <1>2, <1>3

\* An order that was rebuilt with a price and its fees tells of its trade what
\* there was to tell.
LEMMA RebuiltTells ==
    ASSUME raws \in Servable, NEW e \in CatchUp!Executions, CatchUp!Priced(e), ReadWhole(e.order)
    PROVE  LET trades == TradedIn(e.order)
               w == CatchUp!Wager(e)
           IN  /\ \A f \in trades : w.side = f.contract
               /\ w.price = <<CatchUp!Paid(trades), CatchUp!Quantity(trades)>>
               /\ w.stake = CatchUp!Paid(trades) + CatchUp!SumOver([f \in trades |-> f.fee], trades)
  <1> DEFINE o == e.order
             trades == TradedIn(o)
             own == OwnFills(o)
             m == ReadOf(o)
             one == CHOOSE n \in own : TRUE
  <1>1. /\ e = CatchUp!OrderExecution(o, CatchUp!Accepted(raws))
        /\ CatchUp!Uniform(own) /\ own # {}
    <2> DEFINE orders == {n.order : n \in CatchUp!Accepted(raws)}
    <2>1. PICK p \in orders : /\ e = CatchUp!OrderExecution(p, CatchUp!Accepted(raws))
                              /\ CatchUp!Uniform({n \in CatchUp!Accepted(raws) : n.order = p})
      BY DEF CatchUp!Executions
    <2>2. e.order = p
      BY <2>1 DEF CatchUp!OrderExecution
    <2>3. own # {}
      BY <2>2 DEF OwnFills
    <2> QED
      BY <2>1, <2>2, <2>3 DEF OwnFills
  <1>2. /\ own = {m[f] : f \in trades} /\ \A f \in trades : Tells(m[f], f)
        /\ \A f, g \in trades : m[f] = m[g] => f = g
    BY OneReadPerFill
  <1>3. /\ e.contract = one.contract /\ e.contracts = CatchUp!Quantity(own)
        /\ e.notional = CatchUp!Notional(own) /\ e.fees = CatchUp!Fees(own)
    BY <1>1 DEF CatchUp!OrderExecution, OwnFills
  <1>4. IsFiniteSet(trades) /\ \A f \in trades : f \in Traded /\ f.price \in Int /\ f.count \in Int /\ f.fee \in Int
    BY TradesAreTrades, FS_Subset DEF TradedIn
  <1> HIDE DEF o, trades, own, m
  <1>5. \A f \in trades : e.contract = f.contract
    <2>1. one \in own
      BY <1>1
    <2>2. ASSUME NEW f \in trades PROVE e.contract = f.contract
      <3>1. m[f] \in own /\ m[f].contract = f.contract
        BY <1>2 DEF Tells
      <3>2. one.contract = m[f].contract
        BY <1>1, <2>1, <3>1 DEF CatchUp!Uniform
      <3> QED
        BY <1>3, <3>1, <3>2
    <2> QED
      BY <2>2
  \* The count.
  <1> DEFINE count == [f \in trades |-> f.count]
  <1>6. e.contracts = SumOver(count, trades) /\ CatchUp!Quantity(trades) = SumOver(count, trades)
    <2> DEFINE read == [n \in own |-> n.count]
    <2>1. \A f \in trades : count[f] \in Int /\ read[m[f]] = count[f]
      BY <1>2, <1>4 DEF Tells
    <2> HIDE DEF read, count
    <2>2. SumOver(read, own) = SumOver(count, trades)
      BY <1>2, <1>4, <2>1, SumOfImage
    <2> QED
      BY <1>3, <2>2, SumsAreSums DEF CatchUp!Quantity, read, count
  \* The fees.
  <1> DEFINE fee == [f \in trades |-> f.fee]
  <1>7. e.fees = SumOver(fee, trades)
    <2> DEFINE read == [n \in own |-> n.fee]
    <2>1. ~(\E n \in own : n.fee = CatchUp!None) /\ e.fees = SumOver(read, own)
      BY <1>3, SumsAreSums DEF CatchUp!Fees, CatchUp!Priced
    <2>2. \A f \in trades : fee[f] \in Int /\ read[m[f]] = fee[f]
      BY <1>2, <1>4, <2>1 DEF Tells
    <2> HIDE DEF read, fee
    <2> QED
      BY <1>2, <1>4, <2>1, <2>2, SumOfImage
  \* The notional: of the YES legs.
  <1> DEFINE leg == [f \in trades |-> CatchUp!YesLeg(f) * f.count]
  <1>8. e.notional = SumOver(leg, trades) /\ \A f \in trades : leg[f] \in Int
    <2> DEFINE read == [n \in own |-> n.price * n.count]
    <2>1. ~(\E n \in own : n.price = CatchUp!None) /\ e.notional = SumOver(read, own)
      BY <1>3, SumsAreSums DEF CatchUp!Notional, CatchUp!Priced
    <2>2. \A f \in trades : leg[f] \in Int
      BY <1>4 DEF CatchUp!YesLeg, CatchUp!Whole
    <2>3. \A f \in trades : read[m[f]] = leg[f]
      BY <1>2, <2>1 DEF Tells
    <2> HIDE DEF read, leg
    <2> QED
      BY <1>2, <1>4, <2>1, <2>2, <2>3, SumOfImage
  \* The cost.
  <1> DEFINE paid == [f \in trades |-> f.price * f.count]
  <1>9. CatchUp!Paid(trades) = SumOver(paid, trades) /\ \A f \in trades : paid[f] \in Int /\ count[f] \in Int
    BY <1>4, SumsAreSums DEF CatchUp!Paid
  <1>10. CatchUp!Cost(e) = SumOver(paid, trades)
    <2>1. CASE e.contract = "yes"
      <3>1. \A f \in trades : leg[f] = paid[f]
        BY <1>5, <2>1 DEF CatchUp!YesLeg
      <3> HIDE DEF leg, paid
      <3>2. SumOver(leg, trades) = SumOver(paid, trades)
        BY <1>4, <3>1, SumOfEquals
      <3> QED
        BY <1>8, <2>1, <3>2 DEF CatchUp!Cost
    <2>2. CASE e.contract # "yes"
      <3> DEFINE whole == [f \in trades |-> 100 * f.count]
      <3>1. \A p, c \in Int : 100 * c = (100 - p) * c + p * c
        OBVIOUS
      <3>2. \A f \in trades : leg[f] = (100 - f.price) * f.count
        BY <1>5, <2>2 DEF CatchUp!YesLeg, CatchUp!Whole
      <3>3. \A f \in trades : whole[f] = leg[f] + paid[f]
        BY <1>4, <3>1, <3>2
      <3>4. \A f \in trades : whole[f] = 100 * count[f]
        OBVIOUS
      <3> HIDE DEF leg, paid, count, whole
      <3>5. SumOver(whole, trades) = SumOver(leg, trades) + SumOver(paid, trades)
        BY <1>4, <1>8, <1>9, <3>3, SumOfSums
      <3>6. SumOver(whole, trades) = 100 * SumOver(count, trades)
        BY <1>4, <1>9, <3>4, SumOfMultiples
      <3>7. SumOver(leg, trades) \in Int /\ SumOver(paid, trades) \in Int /\ SumOver(count, trades) \in Int
        BY <1>4, <1>8, <1>9, SumIsWhole
      <3>8. CatchUp!Cost(e) = 100 * SumOver(count, trades) - SumOver(leg, trades)
        BY <1>6, <1>8, <2>2 DEF CatchUp!Cost, CatchUp!Whole
      <3> QED
        BY <3>5, <3>6, <3>7, <3>8
    <2> QED
      BY <2>1, <2>2
  <1> HIDE DEF leg, paid, count, fee
  <1>11. /\ CatchUp!Wager(e).side = e.contract
         /\ CatchUp!Wager(e).price = <<CatchUp!Cost(e), e.contracts>>
         /\ CatchUp!Wager(e).stake = CatchUp!Cost(e) + e.fees
    BY DEF CatchUp!Wager
  <1>12. CatchUp!SumOver([f \in trades |-> f.fee], trades) = SumOver(fee, trades)
    BY SumsAreSums DEF fee
  <1>13. /\ \A f \in trades : CatchUp!Wager(e).side = f.contract
         /\ CatchUp!Wager(e).price = <<CatchUp!Paid(trades), CatchUp!Quantity(trades)>>
         /\ CatchUp!Wager(e).stake = CatchUp!Paid(trades) + CatchUp!SumOver([f \in trades |-> f.fee], trades)
    BY <1>5, <1>6, <1>7, <1>9, <1>10, <1>11, <1>12
  <1> QED
    BY <1>13 DEF trades, o

-----------------------------------------------------------------------------
(* What a run may write, and what it has written.                          *)

\* The rows of all that can be rebuilt with a price and its fees.
Writable ==
    {CatchUp!Row(sport, CatchUp!Wager(e)) : e \in {x \in CatchUp!Executions : CatchUp!Priced(x)}}

LEMMA WritableRows ==
    ASSUME raws \in Servable
    PROVE  /\ \A r \in Writable : CatchUp!TellsTheTrade(r) /\ CatchUp!Carries(sport, r, "key")
           /\ \A r, o \in Writable : CatchUp!Key(r) = CatchUp!Key(o) => r = o
  <1>1. ASSUME NEW e \in CatchUp!Executions, CatchUp!Priced(e), NEW r, r = CatchUp!Row(sport, CatchUp!Wager(e))
        PROVE  /\ CatchUp!TellsTheTrade(r) /\ CatchUp!Carries(sport, r, "key")
               /\ CatchUp!Key(r)[3] = e.order
    <2> DEFINE w == CatchUp!Wager(e)
               trades == TradedIn(e.order)
    <2>1. w.key[3] = e.order
      BY DEF CatchUp!Wager
    <2> HIDE DEF w
    <2>2. /\ CatchUp!Carries(sport, r, "key") /\ CatchUp!Reads(sport, r, "key") = w.key
          /\ CatchUp!Carries(sport, r, "side") /\ CatchUp!Reads(sport, r, "side") = w.side
          /\ CatchUp!Reads(sport, r, "price") = w.price /\ r.stake = w.stake
      BY <1>1, RowReads DEF w
    <2>3. CatchUp!Key(r)[3] = e.order
      BY <2>1, <2>2 DEF CatchUp!Key
    <2>4. CatchUp!OfOrder(r) = trades
      BY <2>3 DEF CatchUp!OfOrder, TradedIn
    <2>5. ASSUME CatchUp!AllRead(trades)
          PROVE  /\ \A f \in trades : w.side = f.contract
                 /\ w.price = <<CatchUp!Paid(trades), CatchUp!Quantity(trades)>>
                 /\ w.stake = CatchUp!Paid(trades) + CatchUp!SumOver([f \in trades |-> f.fee], trades)
      <3>1. ReadWhole(e.order)
        BY <2>5 DEF CatchUp!AllRead, ReadWhole
      <3> QED
        BY <1>1, <3>1, RebuiltTells DEF w
    <2> HIDE DEF trades
    <2>6. CatchUp!TellsTheTrade(r)
      BY <2>2, <2>4, <2>5 DEF CatchUp!TellsTheTrade, CatchUp!States
    <2> QED
      BY <2>2, <2>3, <2>6
  <1>2. ASSUME NEW r \in Writable
        PROVE  \E e \in CatchUp!Executions : CatchUp!Priced(e) /\ r = CatchUp!Row(sport, CatchUp!Wager(e))
    BY DEF Writable
  <1>3. ASSUME NEW e \in CatchUp!Executions
        PROVE  e = CatchUp!OrderExecution(e.order, CatchUp!Accepted(raws))
    <2>1. PICK p : e = CatchUp!OrderExecution(p, CatchUp!Accepted(raws))
      BY DEF CatchUp!Executions
    <2>2. e.order = p
      BY <2>1 DEF CatchUp!OrderExecution
    <2> QED
      BY <2>1, <2>2
  <1>4. ASSUME NEW r \in Writable, NEW o \in Writable, CatchUp!Key(r) = CatchUp!Key(o) PROVE r = o
    <2>1. PICK e \in CatchUp!Executions : CatchUp!Priced(e) /\ r = CatchUp!Row(sport, CatchUp!Wager(e))
      BY <1>2
    <2>2. PICK d \in CatchUp!Executions : CatchUp!Priced(d) /\ o = CatchUp!Row(sport, CatchUp!Wager(d))
      BY <1>2
    <2>3. e.order = d.order
      BY <1>1, <1>4, <2>1, <2>2
    <2>4. e = d
      BY <1>3, <2>3
    <2> QED
      BY <2>1, <2>2, <2>4
  <1> QED
    BY <1>1, <1>2, <1>4

\* Rows for no market and side that the ledger read had a row for.
NewTo(rows, saw) ==
    \A r \in rows, o \in saw :
      ~(/\ CatchUp!States(sport, o, "ticker", CatchUp!Reads(sport, r, "ticker"))
        /\ CatchUp!States(sport, o, "side", CatchUp!Reads(sport, r, "side")))

\* The ledger has what was rebuilt and what was typed in.  A proposal is new to
\* the ledger its run read and, by its keys, to the ledger as it is now.
BackfillInv ==
    /\ raws \in Servable
    /\ catchup = [pc |-> catchup.pc, dry |-> catchup.dry, saw |-> catchup.saw,
                  payload |-> catchup.payload, count |-> catchup.count]
    /\ proposal = [rows |-> proposal.rows, saw |-> proposal.saw, open |-> proposal.open]
    /\ catchup.payload \subseteq Writable /\ proposal.rows \subseteq Writable
    /\ \A r \in ledger : r \in Writable \/ ~CatchUp!Carries(sport, r, "key")
    /\ NewTo(catchup.payload, catchup.saw) /\ NewTo(proposal.rows, proposal.saw)
    /\ \A r \in proposal.rows, o \in ledger : ~CatchUp!States(sport, o, "key", CatchUp!Key(r))

LEMMA BackfillIsSound ==
    ASSUME BackfillInv PROVE BackfillWritesOnlyTheMissing
  <1> DEFINE written == CatchUp!RouterRows \cup proposal.rows
  <1>1. written \subseteq Writable
    BY DEF BackfillInv, CatchUp!RouterRows
  <1>2. \A r \in written : CatchUp!TellsTheTrade(r)
    BY <1>1, WritableRows DEF BackfillInv
  <1>3. ASSUME NEW r \in written, NEW o \in written, r # o PROVE CatchUp!Key(r) # CatchUp!Key(o)
    BY <1>1, <1>3, WritableRows DEF BackfillInv
  <1>4. ASSUME NEW r \in proposal.rows, NEW o \in CatchUp!RouterRows PROVE CatchUp!Key(r) # CatchUp!Key(o)
    BY DEF BackfillInv, CatchUp!RouterRows, CatchUp!States, CatchUp!Key
  <1>5. NewTo(proposal.rows, proposal.saw)
    BY DEF BackfillInv
  <1> QED
    BY <1>2, <1>3, <1>4, <1>5
       DEF BackfillWritesOnlyTheMissing, CatchUp!BackfillWritesOnlyTheMissing, NewTo

LEMMA NothingElseIsWritable ==
    ASSUME UNCHANGED <<sport, raws>>
    PROVE  /\ Writable' = Writable
           /\ \A rows, saw : NewTo(rows, saw)' = NewTo(rows, saw)
  BY DEF Writable, CatchUp!Executions, NewTo

\* What a run rebuilds is writable, and what it finds missing is new to what it read.
LEMMA MissingIsNew ==
    ASSUME NEW admitted, NEW saw
    PROVE  LET rows == {CatchUp!Row(sport, w) : w \in CatchUp!Missing(CatchUp!Rebuilt(admitted), saw)}
           IN  rows \subseteq Writable /\ NewTo(rows, saw)
  <1> DEFINE missing == CatchUp!Missing(CatchUp!Rebuilt(admitted), saw)
             rows == {CatchUp!Row(sport, w) : w \in missing}
  <1>1. rows \subseteq Writable
    BY DEF CatchUp!Missing, CatchUp!Rebuilt, Writable
  <1>2. ASSUME NEW w \in missing, NEW o \in saw PROVE ~CatchUp!SameBet(w, o)
    BY DEF CatchUp!Missing, CatchUp!Verdict
  <1>3. ASSUME NEW r \in rows, NEW o \in saw
        PROVE  ~(/\ CatchUp!States(sport, o, "ticker", CatchUp!Reads(sport, r, "ticker"))
                 /\ CatchUp!States(sport, o, "side", CatchUp!Reads(sport, r, "side")))
    <2>1. PICK w \in missing : r = CatchUp!Row(sport, w)
      OBVIOUS
    <2>2. CatchUp!Reads(sport, r, "ticker") = w.ticker /\ CatchUp!Reads(sport, r, "side") = w.side
      BY <2>1, RowReads
    <2> QED
      BY <1>2, <2>2 DEF CatchUp!SameBet
  <1> QED
    BY <1>1, <1>3 DEF NewTo

LEMMA BackfillInitially ==
    ASSUME CatchUp!Init PROVE BackfillInv
  <1>1. /\ raws \in Servable /\ ledger = {} /\ catchup = CatchUp!NoRun /\ proposal = CatchUp!NoProposal
    BY DEF CatchUp!Init
  <1> QED
    BY <1>1 DEF BackfillInv, CatchUp!NoRun, CatchUp!NoProposal, NewTo

\* A step of the run alone leaves the ledger and the proposal.
LEMMA RunMovesOn ==
    ASSUME BackfillInv, UNCHANGED <<sport, raws, ledger, proposal>>,
           catchup' = [pc |-> catchup'.pc, dry |-> catchup'.dry, saw |-> catchup'.saw,
                       payload |-> catchup'.payload, count |-> catchup'.count],
           catchup'.payload \subseteq Writable, NewTo(catchup'.payload, catchup'.saw)
    PROVE  BackfillInv'
  <1>1. Writable' = Writable /\ \A rows, saw : NewTo(rows, saw)' = NewTo(rows, saw)
    BY NothingElseIsWritable
  <1>2. /\ NewTo(catchup.payload, catchup.saw)' = NewTo(catchup'.payload, catchup'.saw)
        /\ NewTo(proposal.rows, proposal.saw)' = NewTo(proposal.rows, proposal.saw)
    BY DEF NewTo
  <1>3. \A r \in proposal.rows, o \in ledger :
          CatchUp!States(sport, o, "key", CatchUp!Key(r))' = CatchUp!States(sport, o, "key", CatchUp!Key(r))
    BY DEF CatchUp!Key
  <1> QED
    BY <1>1, <1>2, <1>3 DEF BackfillInv

LEMMA IdleIsEmpty ==
    ASSUME catchup' = CatchUp!Idle
    PROVE  /\ catchup' = [pc |-> catchup'.pc, dry |-> catchup'.dry, saw |-> catchup'.saw,
                          payload |-> catchup'.payload, count |-> catchup'.count]
           /\ catchup'.payload = {} /\ catchup'.payload \subseteq Writable
           /\ NewTo(catchup'.payload, catchup'.saw)
  BY DEF CatchUp!Idle, CatchUp!NoRun, NewTo

LEMMA FetchLedgerStep ==
    ASSUME BackfillInv, NEW dry, CatchUp!FetchLedger(dry) PROVE BackfillInv'
  <1>1. /\ catchup' = [pc |-> "fetched", dry |-> dry, saw |-> ledger, payload |-> {}, count |-> catchup.count + 1]
        /\ UNCHANGED <<sport, raws, ledger, proposal>>
    BY DEF CatchUp!FetchLedger, CatchUp!NoRun
  <1>2. catchup'.payload = {} /\ NewTo(catchup'.payload, catchup'.saw)
    BY <1>1 DEF NewTo
  <1> QED
    BY <1>1, <1>2, RunMovesOn

LEMMA ReconcileStep ==
    ASSUME BackfillInv, NEW admitted, CatchUp!Reconcile(admitted) PROVE BackfillInv'
  <1> DEFINE missing == CatchUp!Missing(CatchUp!Rebuilt(admitted), catchup.saw)
             rows == {CatchUp!Row(sport, w) : w \in missing}
  <1>1. UNCHANGED <<sport, raws, ledger, proposal>>
    BY DEF CatchUp!Reconcile
  <1>2. CASE missing = {}
    <2>1. catchup' = CatchUp!Idle
      BY <1>2 DEF CatchUp!Reconcile
    <2> QED
      BY <1>1, <2>1, IdleIsEmpty, RunMovesOn
  <1>3. CASE missing # {}
    <2>1. catchup' = [catchup EXCEPT !.pc = "built", !.payload = rows]
      BY <1>3 DEF CatchUp!Reconcile
    <2>2. rows \subseteq Writable /\ NewTo(rows, catchup.saw)
      BY MissingIsNew
    <2> HIDE DEF rows, missing
    <2>3. catchup' = [pc |-> "built", dry |-> catchup.dry, saw |-> catchup.saw,
                      payload |-> rows, count |-> catchup.count]
      BY <2>1 DEF BackfillInv
    <2> QED
      BY <1>1, <2>2, <2>3, RunMovesOn
  <1> QED
    BY <1>2, <1>3

LEMMA FailStep ==
    ASSUME BackfillInv, CatchUp!Fail PROVE BackfillInv'
  BY IdleIsEmpty, RunMovesOn DEF CatchUp!Fail

\* The importer keeps what is not on the ledger by its key.
LEMMA DeliverStep ==
    ASSUME BackfillInv, CatchUp!Deliver PROVE BackfillInv'
  <1> DEFINE rows == CatchUp!Imported(catchup.payload, ledger)
  <1>1. catchup' = CatchUp!Idle /\ UNCHANGED <<sport, raws, ledger>>
    BY DEF CatchUp!Deliver
  <1>2. CASE UNCHANGED proposal
    BY <1>1, <1>2, IdleIsEmpty, RunMovesOn
  <1>3. CASE ~UNCHANGED proposal
    <2>1. PICK opened \in BOOLEAN :
            proposal' = [rows |-> rows, saw |-> catchup.saw, open |-> proposal.open \/ opened]
      BY <1>3 DEF CatchUp!Deliver
    <2>2. /\ rows \subseteq Writable /\ NewTo(rows, catchup.saw)
          /\ \A r \in rows, o \in ledger : ~CatchUp!States(sport, o, "key", CatchUp!Key(r))
      BY DEF BackfillInv, CatchUp!Imported, NewTo
    <2> HIDE DEF rows
    <2>3. Writable' = Writable /\ \A r, s : NewTo(r, s)' = NewTo(r, s)
      BY <1>1, NothingElseIsWritable
    <2>4. /\ proposal'.rows = rows /\ proposal'.saw = catchup.saw
          /\ proposal' = [rows |-> proposal'.rows, saw |-> proposal'.saw, open |-> proposal'.open]
      BY <2>1
    <2>5. NewTo(proposal.rows, proposal.saw)'
      BY <1>1, <2>2, <2>4 DEF NewTo
    <2>6. NewTo(catchup.payload, catchup.saw)'
      BY <1>1, IdleIsEmpty DEF NewTo
    <2>7. \A r \in proposal'.rows, o \in ledger' : ~CatchUp!States(sport', o, "key", CatchUp!Key(r)')
      BY <1>1, <2>2, <2>4 DEF CatchUp!Key
    <2> QED
      BY <1>1, <2>2, <2>3, <2>4, <2>5, <2>6, <2>7, IdleIsEmpty DEF BackfillInv
  <1> QED
    BY <1>2, <1>3

\* What the ledger gains was proposed, or has no key.
LEMMA LedgerGains ==
    ASSUME BackfillInv, UNCHANGED <<sport, raws, catchup>>, NEW rows, ledger' = ledger \cup rows,
           \A r \in rows : r \in Writable \/ ~CatchUp!Carries(sport, r, "key"),
           \/ proposal' = CatchUp!NoProposal
           \/ proposal' = proposal /\ \A r \in rows : ~CatchUp!Carries(sport, r, "key")
    PROVE  BackfillInv'
  <1>1. Writable' = Writable
    BY NothingElseIsWritable
  <1>2. NewTo(catchup.payload, catchup.saw)'
    BY DEF BackfillInv, NewTo
  <1>3. CASE proposal' = CatchUp!NoProposal
    <2>1. proposal'.rows = {} /\ proposal' = [rows |-> proposal'.rows, saw |-> proposal'.saw, open |-> proposal'.open]
      BY <1>3 DEF CatchUp!NoProposal
    <2>2. NewTo(proposal.rows, proposal.saw)'
      BY <2>1 DEF NewTo
    <2> QED
      BY <1>1, <1>2, <2>1, <2>2 DEF BackfillInv
  <1>4. CASE proposal' = proposal /\ \A r \in rows : ~CatchUp!Carries(sport, r, "key")
    <2>1. NewTo(proposal.rows, proposal.saw)'
      BY <1>4 DEF BackfillInv, NewTo
    <2>2. \A r \in proposal'.rows, o \in ledger' : ~CatchUp!States(sport', o, "key", CatchUp!Key(r)')
      BY <1>4 DEF BackfillInv, CatchUp!Key, CatchUp!States
    <2> QED
      BY <1>1, <1>2, <1>4, <2>1, <2>2 DEF BackfillInv
  <1> QED
    BY <1>3, <1>4

LEMMA RecordByHandStep ==
    ASSUME BackfillInv, NEW w, NEW off, NEW priced \in BOOLEAN, CatchUp!RecordByHand(w, off, priced)
    PROVE  BackfillInv'
  <1>1. ledger' = ledger \cup {CatchUp!HandRow(w, w.stake + off, priced)} /\ UNCHANGED <<sport, raws, catchup, proposal>>
    BY DEF CatchUp!RecordByHand
  <1> QED
    BY <1>1, HandRowHasNoKey, LedgerGains

LEMMA MergeProposalStep ==
    ASSUME BackfillInv, CatchUp!MergeProposal PROVE BackfillInv'
  BY LedgerGains DEF CatchUp!MergeProposal, BackfillInv

LEMMA CloseProposalStep ==
    ASSUME BackfillInv, CatchUp!CloseProposal PROVE BackfillInv'
  <1>1. proposal' = [proposal EXCEPT !.open = FALSE] /\ UNCHANGED <<sport, raws, ledger, catchup>>
    BY DEF CatchUp!CloseProposal
  <1>2. /\ proposal'.rows = proposal.rows /\ proposal'.saw = proposal.saw
        /\ proposal' = [rows |-> proposal'.rows, saw |-> proposal'.saw, open |-> proposal'.open]
    BY <1>1 DEF BackfillInv
  <1>3. Writable' = Writable
    BY <1>1, NothingElseIsWritable
  <1>4. NewTo(catchup.payload, catchup.saw)' /\ NewTo(proposal.rows, proposal.saw)'
    BY <1>1, <1>2 DEF BackfillInv, NewTo
  <1>5. \A r \in proposal'.rows, o \in ledger' : ~CatchUp!States(sport', o, "key", CatchUp!Key(r)')
    BY <1>1, <1>2 DEF BackfillInv, CatchUp!Key
  <1> QED
    BY <1>1, <1>2, <1>3, <1>4, <1>5 DEF BackfillInv

LEMMA BackfillKeeps ==
    ASSUME BackfillInv, [CatchUp!Next]_backfillVars PROVE BackfillInv'
  <1>1. ASSUME NEW w \in CatchUp!Rebuilt(CatchUp!OrdersTraded), NEW off \in {0, 5}, NEW priced \in BOOLEAN,
               CatchUp!RecordByHand(w, off, priced)
        PROVE  BackfillInv'
    BY <1>1, RecordByHandStep
  <1>2. CASE CatchUp!MergeProposal
    BY <1>2, MergeProposalStep
  <1>3. CASE CatchUp!CloseProposal
    BY <1>3, CloseProposalStep
  <1>4. ASSUME NEW dry \in BOOLEAN, CatchUp!FetchLedger(dry) PROVE BackfillInv'
    BY <1>4, FetchLedgerStep
  <1>5. ASSUME NEW admitted \in SUBSET CatchUp!OrdersTraded, CatchUp!Reconcile(admitted) PROVE BackfillInv'
    BY <1>5, ReconcileStep
  <1>6. CASE CatchUp!Deliver
    BY <1>6, DeliverStep
  <1>7. CASE CatchUp!Fail
    BY <1>7, FailStep
  <1>8. CASE UNCHANGED backfillVars
    <2>1. UNCHANGED <<sport, raws, ledger, proposal, catchup>>
      BY <1>8 DEF backfillVars
    <2> QED
      BY <2>1, RunMovesOn DEF BackfillInv
  <1> QED
    BY <1>1, <1>2, <1>3, <1>4, <1>5, <1>6, <1>7, <1>8 DEF CatchUp!Next

\* A backfilled wager is written at most once, at its cost, and never for a
\* market and side that the ledger its run read already had a row for, whatever
\* was traded, however it is served and whoever writes in between.
THEOREM OnlyTheMissingIsWritten == Spec => []BackfillWritesOnlyTheMissing
  <1>1. InitAlongside => BackfillInv
    BY BackfillInitially DEF InitAlongside
  <1>2. BackfillInv /\ [NextAlongside]_vars => BackfillInv'
    <2>1. [NextAlongside]_vars => [CatchUp!Next]_backfillVars
      BY DEF NextAlongside, vars
    <2> QED
      BY <2>1, BackfillKeeps
  <1>3. BackfillInv => BackfillWritesOnlyTheMissing
    BY BackfillIsSound
  <1> QED
    BY <1>1, <1>2, <1>3, PTL DEF Spec
=============================================================================
