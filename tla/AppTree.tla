------------------------------ MODULE AppTree ------------------------------
(***************************************************************************)
(* The published app/latest tree: publish.publish, write_health_only and   *)
(* verify_published, and the explorer tree below it, research.             *)
(* publish_explorer, refresh_due and verify_explorer.                      *)
(*                                                                         *)
(* A publisher replaces one file at a time, the file that names the others *)
(* last, and then prunes what that file does not name.  It can be killed   *)
(* between any two of these steps, and readers run beside it.  A document  *)
(* is its run id, its generated_at (the attempt that made it) and its      *)
(* items; its digest is the document itself.                               *)
(***************************************************************************)
EXTENDS Naturals, FiniteSets

CONSTANTS
    Boards,       \* what a build can find: its events, and those recommended
    RunOf,        \* attempt |-> run id it carries; a retry may carry the same
    MaxCrashes    \* bound: publishers killed

VARIABLES
    attempt,    \* attempts begun
    tree,       \* path |-> document, for the files that exist
    publisher,  \* what the running attempt still has to do
    bundles,    \* the bundles some attempt passed its checks with
    reader,     \* one verification in progress
    crashes

treeVars == <<attempt, tree, publisher, bundles, reader, crashes>>

-----------------------------------------------------------------------------
(* Documents and paths.                                                    *)

Areas == {"v1", "explorer"}

\* The file of each area that names the others.
Manifest(area) == IF area = "v1" THEN <<"v1", "manifest">> ELSE <<"explorer", "index">>
HealthPath == <<"v1", "health">>
EventsPath == <<"v1", "events">>
RecsPath == <<"v1", "recommendations">>
DetailPath(e) == <<"v1", "event", e>>
ResearchPath(e) == <<"explorer", "event", e>>

\* A build that is tried again may carry the run id of the failed one.
Doc(n, items) == [run |-> RunOf[n], made |-> n, items |-> items, names |-> {}]

\* The collections and the event details of one build.
V1Documents(n, events, recommended) ==
    [p \in {EventsPath, RecsPath} \cup {DetailPath(e) : e \in events} |->
       CASE p = EventsPath -> Doc(n, events)
         [] p = RecsPath -> Doc(n, recommended)
         [] OTHER -> Doc(n, {p[3]})]

ExplorerDocuments(n, events) ==
    [p \in {ResearchPath(e) : e \in events} |-> Doc(n, {p[3]})]

\* build_manifest, build_index: an entry is a path and the digest of its file.
Entry(p, doc) == [path |-> p, sha |-> doc]
Naming(n, docs, items) ==
    [Doc(n, items) EXCEPT !.names = {Entry(p, docs[p]) : p \in DOMAIN docs}]

-----------------------------------------------------------------------------
(* Checks.                                                                 *)

\* check_bundle: the collections agree on the run, and no recommendation is of
\* an event that events.json does not hold.  Its other collections and ids, and
\* verify_published's look into health.json, are left out.
CheckBundle(docs) ==
    /\ {EventsPath, RecsPath} \subseteq DOMAIN docs
    /\ docs[EventsPath].run = docs[RecsPath].run
    /\ docs[RecsPath].items \subseteq docs[EventsPath].items

\* The manifest's names and runs only.
CheckManifest_NoDigest(manifest, docs, digests) ==
    /\ {entry.path : entry \in manifest.names} = DOMAIN docs
    /\ \A p \in DOMAIN docs : docs[p].run = manifest.run
    /\ \A entry \in manifest.names :
         Cardinality(docs[entry.path].items) = Cardinality(entry.sha.items)

\* check_manifest.
CheckManifest(manifest, docs, digests) ==
    /\ {entry.path : entry \in manifest.names} = DOMAIN docs
    /\ \A p \in DOMAIN docs : docs[p].run = manifest.run
    /\ \A entry \in manifest.names :
         /\ Cardinality(docs[entry.path].items) = Cardinality(entry.sha.items)
         /\ digests[entry.path] = entry.sha

\* verify_explorer compares digests only.
CheckIndex(index, digests) == \A entry \in index.names : digests[entry.path] = entry.sha

-----------------------------------------------------------------------------
(* The publisher.                                                          *)

NoPath == [p \in {} |-> p]

Idle == [pc |-> "idle", rest |-> NoPath, stale |-> {}, area |-> "v1", events |-> {}]

Init ==
    /\ attempt = 0
    /\ tree = NoPath
    /\ publisher = Idle
    /\ bundles = [a \in Areas |-> {}]
    /\ reader = [pc |-> "idle"]
    /\ crashes = 0

\* The previous files of an area: publish() leaves explorer/ alone and
\* publish_explorer() everything else.
InArea(area) == {p \in DOMAIN tree : p[1] = area}

\* The staged files of an attempt, still to be moved, and what it will prune.
Staged(area, docs, extra, events) ==
    [pc |-> "replace", area |-> area, events |-> events,
     rest |-> [p \in DOMAIN docs \cup DOMAIN extra |-> IF p \in DOMAIN docs THEN docs[p] ELSE extra[p]],
     stale |-> InArea(area) \ (DOMAIN docs \cup DOMAIN extra)]

\* One attempt: a bundle that fails its checks is not published.
Build(events, recommended) ==
    LET n == attempt + 1
        docs == V1Documents(n, events, recommended)
        manifest == Naming(n, docs, {})
    IN  /\ publisher.pc = "idle" /\ n \in DOMAIN RunOf
        /\ attempt' = n
        /\ IF CheckBundle(docs) /\ CheckManifest(manifest, docs, docs)
           THEN /\ publisher' = Staged("v1", docs,
                                  [p \in {HealthPath, Manifest("v1")} |->
                                     IF p = HealthPath THEN Doc(n, {}) ELSE manifest], events)
                /\ bundles' = [bundles EXCEPT !["v1"] = @ \cup {docs}]
           ELSE /\ publisher' = [Idle EXCEPT !.pc = "failed"]
                /\ UNCHANGED bundles
        /\ UNCHANGED <<tree, reader, crashes>>

\* In any order.
MovedNext_AnyOrder(rest, area) == DOMAIN rest

\* The payload in any order, then the health, then the file that names them.
MovedNext(rest, area) ==
    LET payload == DOMAIN rest \ {HealthPath, Manifest(area)}
    IN  IF payload # {} THEN payload
        ELSE IF HealthPath \in DOMAIN rest THEN {HealthPath} ELSE DOMAIN rest

With(files, p, doc) == [q \in DOMAIN files \cup {p} |-> IF q = p THEN doc ELSE files[q]]
Without(files, p) == [q \in DOMAIN files \ {p} |-> files[q]]

\* os.replace of one staged file.
Replace(p) ==
    /\ publisher.pc = "replace" /\ p \in MovedNext(publisher.rest, publisher.area)
    /\ tree' = With(tree, p, publisher.rest[p])
    /\ publisher' = [publisher EXCEPT !.rest = Without(@, p),
                                      !.pc = IF publisher.rest = [q \in {p} |-> publisher.rest[p]]
                                             THEN "prune" ELSE @]
    /\ UNCHANGED <<attempt, bundles, reader, crashes>>

Prune(p) ==
    /\ publisher.pc = "prune" /\ p \in publisher.stale
    /\ tree' = Without(tree, p)
    /\ publisher' = [publisher EXCEPT !.stale = @ \ {p}]
    /\ UNCHANGED <<attempt, bundles, reader, crashes>>

\* refresh_due: missing, other events than events.json, or old enough.
RefreshDue(old) ==
    \/ Manifest("explorer") \notin DOMAIN tree
    \/ tree[Manifest("explorer")].items # tree[EventsPath].items
    \/ old

\* After the payload comes the explorer, when it is due; one whose graph has a
\* problem is not published.
Pruned(old, sound) ==
    /\ publisher.pc = "prune" /\ publisher.stale = {}
    /\ IF publisher.area = "v1" /\ RefreshDue(old) /\ sound
       THEN LET docs == ExplorerDocuments(attempt, publisher.events)
                index == Naming(attempt, docs, publisher.events)
            IN  /\ publisher' = Staged("explorer", docs,
                                       [p \in {Manifest("explorer")} |-> index], publisher.events)
                /\ bundles' = [bundles EXCEPT !["explorer"] = @ \cup {docs}]
       ELSE publisher' = Idle /\ UNCHANGED bundles
    /\ UNCHANGED <<attempt, tree, reader, crashes>>

\* write_health_only.
WriteHealthOnly ==
    /\ publisher.pc = "failed"
    /\ tree' = With(tree, HealthPath, Doc(attempt, {}))
    /\ publisher' = Idle
    /\ UNCHANGED <<attempt, bundles, reader, crashes>>

\* The job is killed: what it moved stays, its staging directory is lost.
Crash ==
    /\ publisher.pc # "idle" /\ crashes < MaxCrashes
    /\ publisher' = Idle
    /\ crashes' = crashes + 1
    /\ UNCHANGED <<attempt, tree, bundles, reader>>

-----------------------------------------------------------------------------
(* A reader: verify_published and verify_explorer.                         *)

ReadManifest(area) ==
    /\ reader.pc = "idle" /\ Manifest(area) \in DOMAIN tree
    /\ reader' = [pc |-> "documents", area |-> area, manifest |-> tree[Manifest(area)],
                  docs |-> NoPath, digests |-> NoPath]
    /\ UNCHANGED <<attempt, tree, publisher, bundles, crashes>>

Named == {entry.path : entry \in reader.manifest.names}

\* A named file is read once for the payload; the explorer's files are read
\* again for their digests.  A missing one is a problem.
ReadFile(p) ==
    /\ reader.pc \in {"documents", "digests"} /\ p \in Named
    /\ IF p \notin DOMAIN tree THEN reader' = [pc |-> "idle"]
       ELSE IF reader.pc = "digests"
       THEN p \notin DOMAIN reader.digests /\ reader' = [reader EXCEPT !.digests = With(@, p, tree[p])]
       ELSE /\ p \notin DOMAIN reader.docs
            /\ reader' = [reader EXCEPT !.docs = With(@, p, tree[p]),
                            !.digests = IF reader.area = "v1" THEN With(@, p, tree[p]) ELSE @,
                            !.pc = IF reader.area = "explorer" /\ DOMAIN reader.docs \cup {p} = Named
                                   THEN "digests" ELSE @]
    /\ UNCHANGED <<attempt, tree, publisher, bundles, crashes>>

Verified ==
    /\ reader.pc # "idle" /\ DOMAIN reader.digests = Named
    /\ IF reader.area = "v1"
       THEN CheckBundle(reader.docs) /\ CheckManifest(reader.manifest, reader.docs, reader.digests)
       ELSE CheckIndex(reader.manifest, reader.digests)

ReadAgain ==
    /\ reader.pc # "idle" /\ DOMAIN reader.digests = Named
    /\ reader' = [pc |-> "idle"]
    /\ UNCHANGED <<attempt, tree, publisher, bundles, crashes>>

Next ==
    \/ \E board \in Boards : Build(board.events, board.recommended)
    \/ \E p \in DOMAIN publisher.rest : Replace(p)
    \/ \E p \in publisher.stale : Prune(p)
    \/ \E old, sound \in BOOLEAN : Pruned(old, sound)
    \/ WriteHealthOnly \/ Crash
    \/ \E area \in Areas : ReadManifest(area)
    \/ \E p \in DOMAIN tree \cup (IF reader.pc = "idle" THEN {} ELSE Named) : ReadFile(p)
    \/ ReadAgain

Spec == Init /\ [][Next]_treeVars

-----------------------------------------------------------------------------
(* Properties.                                                             *)

\* A reader that finds no problem has read the files of one publication, not
\* of several, however its reads fell between the replacements, prunings and
\* kills of the publishers.
CleanReadIsOnePublication == Verified => reader.docs \in bundles[reader.area]

\* The naming file on disk never names a file that is not there or that is
\* older than itself.
NothingNamedIsMissing ==
    \A area \in Areas : Manifest(area) \in DOMAIN tree =>
      \A entry \in tree[Manifest(area)].names :
        /\ entry.path \in DOMAIN tree
        /\ tree[entry.path].made >= tree[Manifest(area)].made

PublishedTreeIsWhole == CleanReadIsOnePublication /\ NothingNamedIsMissing
=============================================================================
