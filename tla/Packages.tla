------------------------------ MODULE Packages ------------------------------
(***************************************************************************)
(* The packages of the C bridge (src/src/bridge/cockpitpackages.c): the    *)
(* listing built from the package directories, the three kinds of          *)
(* checksums that survive a reload in different ways, the D-Bus interface  *)
(* that asks for a reload, and the answers to requests for package files.  *)
(*                                                                         *)
(* Directory 1 is the user's; the others are the system's, in the order    *)
(* they are searched.  A directory holds a package or nothing at each of   *)
(* its spots, which stand for file names in sorted order.  A package's     *)
(* "files" stand for its contents, "page" is the one file that is asked    *)
(* for, and "fit" what the "requires" and policy fields of its manifest    *)
(* come to.  Its "name" is the one in its manifest, and 0 when there is    *)
(* none there: then it has the name of its spot.  A digest is the sequence *)
(* of what was fed to it: digests of different input differ.  A checksum   *)
(* that is NULL is the empty set, any other a singleton.                   *)
(***************************************************************************)
EXTENDS Integers, FiniteSets, SequencesExt, FiniteSetsExt

CONSTANTS
    Dirs,        \* number of package directories
    Spots,       \* number of places for packages in a directory
    Pool,        \* the packages that may be found there
    Started,     \* what the directories may hold when the bridge starts
    MaxChanges,  \* bound on changes on disk
    MaxReloads   \* bound on calls of the D-Bus interface

(* What an instance has to satisfy.                                       *)
SizesAssumption == Dirs \in Nat \ {0} /\ Spots \in Nat \ {0}
(* What an instance has to satisfy.                                       *)
PoolAssumption ==
    \A p \in Pool : /\ p.page \in {"there", "absent", "denied"}
                    /\ p.fit \in {"ok", "unfit", "later"}
                    /\ p.name \in 0..Spots /\ p.priority \in Nat

VARIABLES
    disk,     \* disk[d][s]: the set of packages at a spot, empty or a singleton
    pk,       \* CockpitPackages: listing, checksum, bundle, hint and D-Bus
    seen,     \* the bundles built so far, each with the packages it held
    told,     \* the manifests last signalled over D-Bus, when there were any
    reply,    \* the answer to the last request
    changes, calls

vars == <<disk, pk, seen, told, reply, changes, calls>>

NoReply == [asked |-> {}, po |-> FALSE, status |-> 0, bodies |-> <<>>,
            store |-> FALSE, sum |-> {}]

(***************************************************************************)
(* Building the listing                                                    *)
(***************************************************************************)
\* Places of packages in the order build_package_listing() visits them.
Places == [i \in 1..(Dirs * Spots) |-> <<((i - 1) \div Spots) + 1, ((i - 1) % Spots) + 1>>]

\* What package_walk_directory() and the manifest feed to a checksum.
Digest(p) == [files |-> p.files, page |-> p.page, priority |-> p.priority,
              fit |-> p.fit, name |-> p.name]

\* The name in the manifest, or else that of the directory.
ReadPackageName(p, s) == IF p.name = 0 THEN s ELSE p.name

\* The walk stops at a file that cannot be opened, and goes no further than
\* the files before it; the manifest is not added then.
WalkedPart(p) == [files |-> p.files, page |-> "denied", priority |-> 0,
                  fit |-> "cut", name |-> 0]

\* A mutant of KeptBundle: the bundle checksum is kept whatever has changed.
KeptAlways(old, name, own) ==
    IF name \in DOMAIN old THEN old[name].bundle ELSE {}

\* The bundle checksum a package keeps from the listing before: files and
\* manifest are the same.
KeptBundle(old, name, own) ==
    IF /\ name \in DOMAIN old
       /\ old[name].bundle # {} /\ old[name].own # {} /\ old[name].own = own
    THEN old[name].bundle ELSE {}

\* A package of the same name is there, and its priority is no lower.
Beaten(acc, p, name) ==
    name \in DOMAIN acc.listing /\ p.priority <= acc.listing[name].priority

\* The fields of the manifest make sense.  Requirements of a later version do:
\* the package is listed as one that is not available.
SetupManifest(p) == p.fit # "unfit"

\* One package found: it is walked when a checksum or a table of its files
\* is wanted, and replaces one of its name only with a higher priority.
\* With the first package of the user there is no checksum any more.
MaybeAddPackage(acc, old, d, s, p) ==
    LET name == ReadPackageName(p, s)
        own == IF acc.on THEN {Digest(p)} ELSE {}
        walked == acc.on \/ d > 1
        fed(part) == IF acc.on THEN Append(acc.digest, part) ELSE acc.digest
    IN IF Beaten(acc, p, name) THEN acc
       ELSE IF walked /\ p.page = "denied"
       THEN [acc EXCEPT !.digest = fed(WalkedPart(p))]
       ELSE IF ~SetupManifest(p)
       THEN [acc EXCEPT !.digest = fed(Digest(p))]
       ELSE [acc EXCEPT
                !.digest = fed(Digest(p)),
                !.on = @ /\ d > 1,
                !.listing = (name :> [at |-> <<d, s>>, files |-> p.files,
                    priority |-> p.priority, own |-> own,
                    bundle |-> KeptBundle(old, name, own),
                    indexed |-> d = 1 \/ p.page = "there",
                    available |-> p.fit = "ok"]) @@ @]

BuildPackageListing(d, old) ==
    FoldLeft(LAMBDA acc, at :
                IF d[at[1]][at[2]] = {} THEN acc
                ELSE MaybeAddPackage(acc, old, at[1], at[2],
                                     CHOOSE p \in d[at[1]][at[2]] : TRUE),
             [listing |-> <<>>, digest |-> <<>>, on |-> TRUE], Places)

\* The first bundle checksum there is stays the one reported; a package
\* without a checksum of its own gets the one of this bundle.
BuildPackages(k, d) ==
    LET built == BuildPackageListing(d, k.listing)
        bundle == IF built.on THEN {built.digest} ELSE {}
    IN [k EXCEPT !.checksum = IF @ = {} THEN bundle ELSE @,
          !.bundle = bundle,
          !.listing = [n \in DOMAIN built.listing |->
             [built.listing[n] EXCEPT !.bundle = IF @ = {} THEN bundle ELSE @]]]

(***************************************************************************)
(* Manifests, names and bridges                                            *)
(***************************************************************************)
\* The JSON block: the manifests of every package with their checksums.
Manifests(k) == [n \in DOMAIN k.listing |->
                    [files |-> k.listing[n].files, sum |-> k.listing[n].bundle]]

\* The packages whose bridges the router is given, in the order it tries
\* them; packages that are not available have theirs in it too.  The order
\* of equal priorities is that of a hash table, here that of names.
GetBridges(k) ==
    SetToSortSeq(DOMAIN k.listing, LAMBDA a, b :
        \/ k.listing[a].priority > k.listing[b].priority
        \/ k.listing[a].priority = k.listing[b].priority /\ a < b)

\* Build, and let the router ask for the bridges.
Rebuilt(k, d) ==
    LET built == BuildPackages(k, d) IN [built EXCEPT !.bridges = GetBridges(built)]

Inited(d) ==
    Rebuilt([listing |-> <<>>, checksum |-> {}, bundle |-> {}, bridges |-> <<>>,
             hint |-> FALSE, dbus |-> FALSE], d)

Held(k) == [bundle |-> k.bundle,
            packages |-> {<<n, k.listing[n].own>> : n \in DOMAIN k.listing}]

Init ==
    /\ disk \in Started
    /\ pk = Inited(disk)
    /\ seen = <<Held(Inited(disk))>>
    /\ told = {} /\ reply = NoReply
    /\ changes = 0 /\ calls = 0

\* cockpit_packages_reload(): build again, then tell the listeners.
PackagesReload ==
    /\ pk' = Rebuilt(pk, disk)
    /\ seen' = Append(seen, Held(pk'))
    /\ told' = IF pk.dbus THEN {Manifests(pk')} ELSE told

\* The object is registered on the internal bus.
DBusStartup ==
    /\ ~pk.dbus
    /\ pk' = [pk EXCEPT !.dbus = TRUE]
    /\ told' = {Manifests(pk)}  \* readable as a property from now on
    /\ UNCHANGED <<disk, seen, reply, changes, calls>>

Reload ==
    /\ pk.dbus /\ calls < MaxReloads
    /\ PackagesReload
    /\ calls' = calls + 1
    /\ UNCHANGED <<disk, reply, changes>>

\* The hint of a page that starts: the first one only leaves a note.
ReloadHint ==
    /\ pk.dbus /\ calls < MaxReloads
    /\ IF pk.hint THEN PackagesReload
       ELSE pk' = [pk EXCEPT !.hint = TRUE] /\ UNCHANGED <<seen, told>>
    /\ calls' = calls + 1
    /\ UNCHANGED <<disk, reply, changes>>

\* A package is installed, changed or removed.
Change(d, s, ps) ==
    /\ changes < MaxChanges
    /\ ps # disk[d][s]
    /\ disk' = [disk EXCEPT ![d][s] = ps]
    /\ changes' = changes + 1
    /\ UNCHANGED <<pk, seen, told, reply, calls>>

(***************************************************************************)
(* Requests for files                                                      *)
(***************************************************************************)
\* What the file of a listed package is when it is loaded: files that were
\* not there when the package was walked are not looked for.
PageOf(n) ==
    LET at == pk.listing[n].at
        now == disk[at[1]][at[2]]
    IN IF ~pk.listing[n].indexed \/ now = {} THEN "absent"
       ELSE (CHOOSE p \in now : TRUE).page

Answer(status, bodies, store) ==
    [asked |-> {}, po |-> FALSE, status |-> status, bodies |-> bodies, store |-> store /\ pk.checksum # {},
     sum |-> pk.checksum]

\* package_content() for one package: "po" asks for a translation, which is
\* empty rather than missing.
RequestOne(n, valid, po) ==
    IF ~valid \/ n \notin DOMAIN pk.listing THEN Answer(404, <<>>, FALSE)
    ELSE IF PageOf(n) = "denied" THEN Answer(403, <<>>, FALSE)
    ELSE IF PageOf(n) = "absent" /\ ~po THEN Answer(404, <<>>, FALSE)
    ELSE IF ~pk.listing[n].available THEN Answer(503, <<>>, FALSE)
    ELSE Answer(200, IF PageOf(n) = "there" THEN <<n>> ELSE <<>>, PageOf(n) = "there")

\* package_content() for "*": the files of all packages in one answer, never
\* kept by the browser.  Without any package no headers are ever sent.
RequestAll(valid) ==
    LET names == SetToSortSeq(DOMAIN pk.listing, LAMBDA a, b : a < b)
    IN IF DOMAIN pk.listing = {} THEN Answer(0, <<>>, FALSE)
       ELSE IF ~valid THEN Answer(404, <<>>, FALSE)
       ELSE Answer(200, SelectSeq(names, LAMBDA n : PageOf(n) = "there"), FALSE)

Request ==
    /\ \/ \E n \in 1..Spots, valid, po \in BOOLEAN :
             reply' = [RequestOne(n, valid, po) EXCEPT !.asked = {n}, !.po = po]
       \/ \E valid \in BOOLEAN :
             reply' = [RequestAll(valid) EXCEPT !.asked = DOMAIN pk.listing]
    /\ UNCHANGED <<disk, pk, seen, told, changes, calls>>

\* The answer is read, and what follows does not depend on it.
Forget ==
    /\ reply # NoReply
    /\ reply' = NoReply
    /\ UNCHANGED <<disk, pk, seen, told, changes, calls>>

Next ==
    \/ reply = NoReply /\ (DBusStartup \/ Reload \/ ReloadHint \/ Request)
    \/ \E d \in 1..Dirs, s \in 1..Spots :
          \E ps \in {{}} \union {{p} : p \in Pool} :
             reply = NoReply /\ Change(d, s, ps)
    \/ Forget

Spec == Init /\ [][Next]_vars

(***************************************************************************)
(* Properties                                                              *)
(***************************************************************************)
Checksums(k) == {k.checksum, k.bundle} \union {k.listing[n].bundle : n \in DOMAIN k.listing}

\* The state has its type: checksums are NULL or one value, something is
\* reported as soon as any bundle has had a checksum, and a bundle with a
\* checksum has no package without one.
TypeOK ==
    /\ \A c \in Checksums(pk) : Cardinality(c) <= 1
    /\ pk.checksum = {} => \A i \in DOMAIN seen : seen[i].bundle = {}
    /\ pk.bundle # {} => \A n \in DOMAIN pk.listing : pk.listing[n].bundle # {}
    /\ DOMAIN pk.listing \subseteq 1..Spots
    /\ reply.store => reply.status = 200 /\ reply.sum # {}

\* Packages a directory offers that pass every check of maybe_add_package():
\* those of the user are not walked any more once one of them was taken.
Acceptable(d, at, q) ==
    /\ q.fit # "unfit"
    /\ \/ q.page # "denied"
       \/ /\ at[1] = 1
          /\ \E s \in 1..(at[2] - 1) :
                \E r \in d[1][s] : r.fit # "unfit" /\ r.page # "denied"

Offers(d, n) ==
    {<<i, p>> \in (DOMAIN Places) \X Pool :
        p \in d[Places[i][1]][Places[i][2]] /\ ReadPackageName(p, Places[i][2]) = n /\ Acceptable(d, Places[i], p)}

\* The listing names, of all the packages of one name that can be used, the
\* first of those with the highest priority: one of the user before those of
\* the system.
BestListed ==
    LET listing == BuildPackageListing(disk, pk.listing).listing
    IN \A n \in 1..Spots :
         IF Offers(disk, n) = {} THEN n \notin DOMAIN listing
         ELSE /\ n \in DOMAIN listing
              /\ \E o \in Offers(disk, n) :
                   /\ Places[o[1]] = listing[n].at
                   /\ \A q \in Offers(disk, n) :
                        \/ q[2].priority < o[2].priority
                        \/ q[2].priority = o[2].priority /\ q[1] >= o[1]

\* A manifest's checksum is that of a bundle that held exactly these files
\* and this manifest.
SumHoldsFiles ==
    \A n \in DOMAIN pk.listing :
       LET p == pk.listing[n]
       IN p.bundle # {} /\ p.own # {}
             => \A c \in p.bundle : \E i \in DOMAIN c : {c[i]} = p.own

\* A package whose manifest has the checksum the bridge reports has the files
\* it had in the bundle that checksum was made of: the browser may load it,
\* and find it in its cache, under that checksum.  The name a package has
\* from its directory is in no checksum: what was another package then, with
\* the very same contents, may have moved.
SafeChecksum ==
    \A n \in DOMAIN pk.listing :
       LET p == pk.listing[n]
       IN p.bundle # {} /\ p.bundle = pk.checksum
             => \A i \in DOMAIN seen : seen[i].bundle = pk.checksum =>
                   \/ <<n, p.own>> \in seen[i].packages
                   \/ /\ \E own \in p.own : own.name = 0
                      /\ \E m \in (1..Spots) \ {n} : <<m, p.own>> \in seen[i].packages

\* Whoever listens on D-Bus knows the manifests as they are served.
ToldManifests == pk.dbus => told = {Manifests(pk)}

\* The router tries the bridges of every listed package, those of a higher
\* priority first, and no bridge of a package that is gone.
BridgesRanked ==
    /\ ToSet(pk.bridges) = DOMAIN pk.listing
    /\ \A i, j \in DOMAIN pk.bridges :
          i < j => pk.listing[pk.bridges[i]].priority >= pk.listing[pk.bridges[j]].priority

\* A package that is not fit for this version only turns away requests for
\* files it has, or for translations; an answer for all packages holds the
\* file of every package that has it, in the order of their names; and no
\* answer that depends on the language or on the set of packages is stored.
Served ==
    /\ reply.status = 503 => \/ reply.po
                             \/ \E n \in reply.asked : PageOf(n) = "there"
    /\ reply.status = 200 => ToSet(reply.bodies) = {n \in reply.asked : PageOf(n) = "there"}
    /\ reply.store => Cardinality(reply.asked) = 1 /\ Len(reply.bodies) = 1
=============================================================================
