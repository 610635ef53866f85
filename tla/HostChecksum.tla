---------------------------- MODULE HostChecksum ----------------------------
(***************************************************************************)
(* The checksums of the packages of hosts, in cockpit-ws (the end of       *)
(* ws/cockpitwebservice.c, and ws/cockpitchannelresponse.c).  The response *)
(* of a host to a request for a page says the checksum of its packages.    *)
(* Links in the page then name the checksum instead of the host, and are   *)
(* served by a host that has it: this machine, if possible.                *)
(***************************************************************************)
EXTENDS FiniteSets, TLAPS

CONSTANTS
    Hosts,       \* the hosts of a session
    Checksums,   \* the checksums of packages
    NoEntry,        \* no entry in a table
    localhost,   \* this machine
    Upgrades     \* may the packages of a host change

ASSUME ChecksumAssumption ==
    localhost \in Hosts /\ NoEntry \notin Hosts \cup Checksums /\ Upgrades \in BOOLEAN

VARIABLES
    checksum_by_host,   \* what each host said last
    host_by_checksum,   \* the host that serves each checksum
    packages,           \* the packages that each host has
    responses           \* heads on their way: a host and what it says

vars == <<checksum_by_host, host_by_checksum, packages, responses>>

\* cockpit_web_service_init
Init ==
    /\ checksum_by_host = [h \in Hosts |-> NoEntry]
    /\ host_by_checksum = [c \in Checksums |-> NoEntry]
    /\ packages \in [Hosts -> Checksums]
    /\ responses = {}

\* A host answers a request for a page.
Respond(h) ==
    /\ responses' = responses \cup {<<h, packages[h]>>}
    /\ UNCHANGED <<checksum_by_host, host_by_checksum, packages>>

\* The packages of a host change.
Upgrade(h, c) ==
    /\ Upgrades
    /\ packages' = [packages EXCEPT ![h] = c]
    /\ UNCHANGED <<checksum_by_host, host_by_checksum, responses>>

\* A mutant of WithoutOld: the entry for the old checksum stays.
KeepOld(h) == host_by_checksum

\* The entry for the old checksum of the host is removed, whichever host it is for.
WithoutOld(h) ==
    [c \in Checksums |-> IF c = checksum_by_host[h] THEN NoEntry ELSE host_by_checksum[c]]

\* "Only replace checksum if the old one wasn't localhost"
Replaced(h, c) ==
    IF host_by_checksum[c] = localhost THEN WithoutOld(h) ELSE [WithoutOld(h) EXCEPT ![c] = h]

\* cockpit_web_service_set_host_checksum, for the head of a response.
SetHostChecksum(h, c) ==
    /\ <<h, c>> \in responses
    /\ responses' = responses \ {<<h, c>>}
    /\ IF checksum_by_host[h] = c THEN UNCHANGED <<checksum_by_host, host_by_checksum>>
       ELSE /\ checksum_by_host' = [checksum_by_host EXCEPT ![h] = c]
            /\ host_by_checksum' = Replaced(h, c)
    /\ UNCHANGED packages

Next ==
    \E h \in Hosts :
        \/ Respond(h)
        \/ \E c \in Checksums : Upgrade(h, c) \/ SetHostChecksum(h, c)

Spec == Init /\ [][Next]_vars

(***************************************************************************)
(* Properties.                                                             *)
(***************************************************************************)
TypeOK ==
    /\ checksum_by_host \in [Hosts -> Checksums \cup {NoEntry}]
    /\ host_by_checksum \in [Checksums -> Hosts \cup {NoEntry}]
    /\ packages \in [Hosts -> Checksums]
    /\ responses \subseteq Hosts \X Checksums

\* A link with a checksum is served by a host that has said it has these packages, and has said
\* nothing else since: no page is put together from the packages of two versions.
ServedByOwner ==
    \A c \in Checksums :
        host_by_checksum[c] # NoEntry => checksum_by_host[host_by_checksum[c]] = c

\* The links of a page can be followed: the checksum that stands in the pages of a host has a
\* host, as long as no packages change.
LinksFound ==
    \A h \in Hosts : checksum_by_host[h] # NoEntry => host_by_checksum[checksum_by_host[h]] # NoEntry

\* The packages that this machine has are served by this machine, as long as no packages change.
LocalPreferred ==
    checksum_by_host[localhost] # NoEntry => host_by_checksum[checksum_by_host[localhost]] = localhost

\* What makes the last two inductive: a host always says the same.
Steady ==
    /\ \A r \in responses : r[2] = packages[r[1]]
    /\ \A h \in Hosts : checksum_by_host[h] \in {NoEntry, packages[h]}

-----------------------------------------------------------------------------
(***************************************************************************)
(* Proofs about the tables of checksums, for every set of hosts and        *)
(* checksums.                                                              *)
(***************************************************************************)
(* The tables keep their types.                                            *)
LEMMA TypesKept == TypeOK /\ [Next]_vars => TypeOK'
<1> SUFFICES ASSUME TypeOK, [Next]_vars PROVE TypeOK'
  OBVIOUS
<1> USE ChecksumAssumption DEF TypeOK
<1>1. ASSUME NEW h \in Hosts, Respond(h) PROVE TypeOK'
  BY <1>1 DEF Respond
<1>2. ASSUME NEW h \in Hosts, NEW c \in Checksums, Upgrade(h, c) PROVE TypeOK'
  BY <1>2 DEF Upgrade
<1>3. ASSUME NEW h \in Hosts, NEW c \in Checksums, SetHostChecksum(h, c) PROVE TypeOK'
  <2>1. Replaced(h, c) \in [Checksums -> Hosts \cup {NoEntry}]
    BY DEF Replaced, WithoutOld
  <2> QED
    BY <1>3, <2>1 DEF SetHostChecksum
<1>4. CASE UNCHANGED vars
  BY <1>4 DEF vars
<1> QED
  BY <1>1, <1>2, <1>3, <1>4 DEF Next

(* What the new table of hosts says of each checksum.                      *)
LEMMA ReplacedEntries ==
    ASSUME TypeOK, NEW h \in Hosts, NEW c \in Checksums, NEW d \in Checksums, checksum_by_host[h] # c
    PROVE  /\ d = c => Replaced(h, c)[d] = IF host_by_checksum[c] = localhost THEN localhost ELSE h
           /\ d # c /\ d = checksum_by_host[h] => Replaced(h, c)[d] = NoEntry
           /\ d # c /\ d # checksum_by_host[h] => Replaced(h, c)[d] = host_by_checksum[d]
BY ChecksumAssumption DEF TypeOK, Replaced, WithoutOld

(* A link is never served by a host with other packages: when a host says  *)
(* something new, its old entry goes before the new one is made.           *)
LEMMA OwnerKept == TypeOK /\ ServedByOwner /\ [Next]_vars => ServedByOwner'
<1> SUFFICES ASSUME TypeOK, ServedByOwner, [Next]_vars PROVE ServedByOwner'
  OBVIOUS
<1> USE ChecksumAssumption
<1>1. ASSUME NEW h \in Hosts, Respond(h) PROVE ServedByOwner'
  BY <1>1 DEF Respond, ServedByOwner
<1>2. ASSUME NEW h \in Hosts, NEW c \in Checksums, Upgrade(h, c) PROVE ServedByOwner'
  BY <1>2 DEF Upgrade, ServedByOwner
<1>3. ASSUME NEW h \in Hosts, NEW c \in Checksums, SetHostChecksum(h, c) PROVE ServedByOwner'
  <2>1. CASE checksum_by_host[h] = c
    BY <1>3, <2>1 DEF SetHostChecksum, ServedByOwner
  <2>2. CASE checksum_by_host[h] # c
    <3>1. checksum_by_host' = [checksum_by_host EXCEPT ![h] = c] /\ host_by_checksum' = Replaced(h, c)
      BY <1>3, <2>2 DEF SetHostChecksum
    <3> SUFFICES ASSUME NEW d \in Checksums, Replaced(h, c)[d] # NoEntry
                 PROVE  checksum_by_host'[Replaced(h, c)[d]] = d
      BY <3>1 DEF ServedByOwner
    <3>2. CASE d = c
      <4>1. CASE host_by_checksum[c] = localhost
        <5>1. checksum_by_host[localhost] = c
          BY <4>1 DEF ServedByOwner
        <5> QED
          BY <2>2, <3>1, <3>2, <4>1, <5>1, ReplacedEntries DEF TypeOK
      <4>2. CASE host_by_checksum[c] # localhost
        BY <2>2, <3>1, <3>2, <4>2, ReplacedEntries DEF TypeOK
      <4> QED
        BY <4>1, <4>2
    <3>3. CASE d # c
      <4>1. d # checksum_by_host[h] /\ Replaced(h, c)[d] = host_by_checksum[d]
        BY <2>2, <3>3, ReplacedEntries
      <4>2. host_by_checksum[d] \in Hosts /\ checksum_by_host[host_by_checksum[d]] = d
        BY <4>1 DEF TypeOK, ServedByOwner
      <4>3. host_by_checksum[d] # h
        BY <4>1, <4>2
      <4> QED
        BY <3>1, <4>1, <4>2, <4>3 DEF TypeOK
    <3> QED
      BY <3>2, <3>3
  <2> QED
    BY <2>1, <2>2
<1>4. CASE UNCHANGED vars
  BY <1>4 DEF vars, ServedByOwner
<1> QED
  BY <1>1, <1>2, <1>3, <1>4 DEF Next

(* cockpit_web_service_set_host_checksum never leaves a checksum with a    *)
(* host that has since said something else, in whatever order the          *)
(* responses of upgraded hosts arrive.                                     *)
THEOREM ChecksumSafety == Spec => [](TypeOK /\ ServedByOwner)
<1>1. Init => TypeOK /\ ServedByOwner
  BY ChecksumAssumption DEF Init, TypeOK, ServedByOwner
<1>2. TypeOK /\ ServedByOwner /\ [Next]_vars => (TypeOK /\ ServedByOwner)'
  BY TypesKept, OwnerKept
<1> QED
  BY <1>1, <1>2, PTL DEF Spec

-----------------------------------------------------------------------------
(* Without upgrades a host has no old entry when it is given a new one.    *)
FixedInv == TypeOK /\ Steady /\ LinksFound /\ LocalPreferred

(* It is inductive as long as no packages change.                          *)
LEMMA FixedKept ==
    ASSUME ~Upgrades
    PROVE  FixedInv /\ [Next]_vars => FixedInv'
<1> SUFFICES ASSUME FixedInv, [Next]_vars PROVE FixedInv'
  OBVIOUS
<1> USE ChecksumAssumption
<1>0. TypeOK /\ Steady /\ LinksFound /\ LocalPreferred /\ TypeOK'
  BY TypesKept DEF FixedInv
<1>1. ASSUME NEW h \in Hosts, Respond(h) PROVE FixedInv'
  <2>1. Steady'
    BY <1>0, <1>1 DEF Respond, Steady, TypeOK
  <2>2. LinksFound' /\ LocalPreferred'
    BY <1>0, <1>1 DEF Respond, LinksFound, LocalPreferred
  <2> QED
    BY <1>0, <2>1, <2>2 DEF FixedInv
<1>2. ASSUME NEW h \in Hosts, NEW c \in Checksums, Upgrade(h, c) PROVE FixedInv'
  BY <1>2 DEF Upgrade
<1>3. ASSUME NEW h \in Hosts, NEW c \in Checksums, SetHostChecksum(h, c) PROVE FixedInv'
  <2>1. packages[h] = c
    <3>1. <<h, c>> \in responses
      BY <1>3 DEF SetHostChecksum
    <3>2. <<h, c>>[2] = packages[<<h, c>>[1]]
      BY <1>0, <3>1 DEF Steady
    <3> QED
      BY <3>2
  <2>2. CASE checksum_by_host[h] = c
    <3>1. UNCHANGED <<checksum_by_host, host_by_checksum, packages>> /\ responses' \subseteq responses
      BY <1>3, <2>2 DEF SetHostChecksum
    <3>2. Steady' /\ LinksFound' /\ LocalPreferred'
      BY <1>0, <3>1 DEF Steady, LinksFound, LocalPreferred
    <3> QED
      BY <1>0, <3>2 DEF FixedInv
  <2>3. CASE checksum_by_host[h] # c
    <3>1. /\ checksum_by_host' = [checksum_by_host EXCEPT ![h] = c] /\ host_by_checksum' = Replaced(h, c)
          /\ packages' = packages /\ responses' \subseteq responses
      BY <1>3, <2>3 DEF SetHostChecksum
    <3>2. checksum_by_host[h] = NoEntry
      BY <1>0, <2>1, <2>3 DEF Steady
    <3>3. /\ Replaced(h, c)[c] = IF host_by_checksum[c] = localhost THEN localhost ELSE h
          /\ \A d \in Checksums : d # c => Replaced(h, c)[d] = host_by_checksum[d]
      BY <1>0, <2>3, <3>2, ReplacedEntries
    <3>4. \A g \in Hosts : g # h => checksum_by_host'[g] = checksum_by_host[g]
      BY <1>0, <3>1 DEF TypeOK
    <3>5. checksum_by_host'[h] = c
      BY <1>0, <3>1 DEF TypeOK
    <3>6. Steady'
      <4>1. \A r \in responses' : r[2] = packages'[r[1]]
        BY <1>0, <3>1 DEF Steady
      <4>2. \A g \in Hosts : checksum_by_host'[g] \in {NoEntry, packages'[g]}
        BY <1>0, <2>1, <3>1, <3>4, <3>5 DEF Steady
      <4> QED
        BY <4>1, <4>2 DEF Steady
    <3>7. LinksFound'
      <4> SUFFICES ASSUME NEW g \in Hosts, checksum_by_host'[g] # NoEntry
                   PROVE  Replaced(h, c)[checksum_by_host'[g]] # NoEntry
        BY <3>1 DEF LinksFound
      <4>1. CASE checksum_by_host'[g] = c
        BY <3>3, <4>1
      <4>2. CASE checksum_by_host'[g] # c
        <5>1. g # h /\ checksum_by_host'[g] = checksum_by_host[g]
          BY <3>4, <3>5, <4>2
        <5>2. checksum_by_host[g] \in Checksums
          BY <1>0, <5>1 DEF TypeOK
        <5> QED
          BY <1>0, <3>3, <4>2, <5>1, <5>2 DEF LinksFound
      <4> QED
        BY <4>1, <4>2
    <3>8. LocalPreferred'
      <4> SUFFICES ASSUME checksum_by_host'[localhost] # NoEntry
                   PROVE  Replaced(h, c)[checksum_by_host'[localhost]] = localhost
        BY <3>1 DEF LocalPreferred
      <4>1. CASE h = localhost
        BY <3>3, <3>5, <4>1
      <4>2. CASE h # localhost
        <5>1. checksum_by_host'[localhost] = checksum_by_host[localhost]
          BY <3>4, <4>2
        <5>2. checksum_by_host[localhost] \in Checksums /\ host_by_checksum[checksum_by_host[localhost]] = localhost
          BY <1>0, <5>1 DEF TypeOK, LocalPreferred
        <5>3. CASE checksum_by_host[localhost] = c
          BY <3>3, <5>1, <5>2, <5>3
        <5>4. CASE checksum_by_host[localhost] # c
          BY <3>3, <5>1, <5>2, <5>4
        <5> QED
          BY <5>3, <5>4
      <4> QED
        BY <4>1, <4>2
    <3> QED
      BY <1>0, <3>6, <3>7, <3>8 DEF FixedInv
  <2> QED
    BY <2>2, <2>3
<1>4. CASE UNCHANGED vars
  BY <1>0, <1>4 DEF vars, FixedInv, Steady, LinksFound, LocalPreferred
<1> QED
  BY <1>1, <1>2, <1>3, <1>4 DEF Next

(* As long as no packages change, every link of a page has a host, and     *)
(* this machine serves the packages it has: the entry that                 *)
(* cockpit_web_service_set_host_checksum removes is never another host's.  *)
THEOREM LinksSafety ==
    ASSUME ~Upgrades
    PROVE  Spec => [](LinksFound /\ LocalPreferred)
<1>1. Init => FixedInv
  BY ChecksumAssumption DEF Init, FixedInv, TypeOK, Steady, LinksFound, LocalPreferred
<1>2. FixedInv /\ [Next]_vars => FixedInv'
  BY FixedKept
<1>3. FixedInv => LinksFound /\ LocalPreferred
  BY DEF FixedInv
<1> QED
  BY <1>1, <1>2, <1>3, PTL DEF Spec
=============================================================================
