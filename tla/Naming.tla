------------------------------- MODULE Naming -------------------------------
(***************************************************************************)
(* Names for peers.  config.Read fills the tables of peers and resolves    *)
(* the references in the access lists of a service (config/config.go); the *)
(* DNS server answers from the tables (dns/server.go), the commands and    *)
(* the lists resolve references with FindPeerByCLIRef.                     *)
(*                                                                         *)
(* A name is the sequence of its labels, the parts between its dots, as    *)
(* they are written.  A reference is empty, "@" and a name, or a prefix    *)
(* that some peer IDs start with.  One service stands for all.             *)
(***************************************************************************)
EXTENDS Naturals, Sequences, FiniteSets, Functions, LookupTables

CONSTANTS
    IDs,        \* peer IDs the configuration may list
    Self,       \* the ID of this node
    Labels,     \* what may stand between two dots
    Lower,      \* Lower[x]: the label x in lower case
    Names,      \* names peers may have
    Hostname,   \* the label os.Hostname gives, in lower case
    IDPrefixes, \* prefixes of peer IDs
    Matches,    \* Matches[x]: the peer IDs that start with x
    MaxPeers, MaxRefs   \* bounds on the peers and on the length of a list

ASSUME NamingAssumption ==
    /\ Names \subseteq Seq(Labels) \ {<< >>}
    /\ Lower \in [Labels -> Labels] /\ \A x \in Labels : Lower[Lower[x]] = Lower[x]
    /\ Matches \in [IDPrefixes -> SUBSET IDs]
    /\ MaxPeers \in Nat /\ MaxRefs \in Nat

NoName == << >>     \* the name of a peer without one
Peer == [id : IDs, name : Names \cup {NoName}]
Ref == [by : {"name"}, name : Names \cup {NoName}] \cup [by : {"prefix"}, prefix : IDPrefixes]
           \cup [by : {"nothing"}]
Lists == {"white", "black"}

VARIABLES
    input,   \* the peers of the file
    refs,    \* the references of each list that are still to be resolved
    given,   \* the references of each list in the file
    peers,   \* Config.Peers
    byName,  \* PeerLookup.ByName
    acl,     \* Whitelist and Blacklist of the service
    step     \* what Read reads: "peers", a list, or how it returned

namingVars == <<input, refs, given, peers, byName, acl, step>>

LowerCase(name) == [i \in DOMAIN name |-> Lower[name[i]]]

NamingInit ==
    /\ input \in UNION {[1..n -> Peer] : n \in 0..MaxPeers}
    /\ given \in [Lists -> {s \in SUBSET Ref : Cardinality(s) <= MaxRefs}]
    /\ refs = given
    /\ peers = << >> /\ byName = NoEntries
    /\ acl = [l \in Lists |-> {}]
    /\ step = "peers"

-----------------------------------------------------------------------------
(* References. *)

Found(p) == [ok |-> TRUE, ids |-> {p.id}]
NotFound == [ok |-> TRUE, ids |-> {}]
Ambiguous == [ok |-> FALSE, ids |-> {}]

\* The first peer with exactly that name.
FindPeerByName(name) ==
    LET at == {i \in DOMAIN peers : peers[i].name = name}
    IN  IF at = {} THEN NotFound
                   ELSE Found(peers[CHOOSE i \in at : \A j \in at : i <= j])

\* Defect used to test the properties: the first match is as good as the only one.
FindPeerByIDPrefixFirst(x) ==
    LET at == {i \in DOMAIN peers : peers[i].id \in Matches[x]}
    IN  IF at = {} THEN NotFound
                   ELSE Found(peers[CHOOSE i \in at : \A j \in at : i <= j])

\* The only entry whose ID starts with x.
FindPeerByIDPrefix(x) ==
    LET at == {i \in DOMAIN peers : peers[i].id \in Matches[x]}
    IN  IF at = {} THEN NotFound
        ELSE IF Cardinality(at) > 1 THEN Ambiguous
        ELSE Found(peers[CHOOSE i \in at : TRUE])

\* An empty reference is of nobody.  "@" alone asks for the empty name, which is
\* the name of unnamed peers.
FindPeerByCLIRef(r) ==
    IF r.by = "nothing" THEN NotFound
    ELSE IF r.by = "name" THEN FindPeerByName(r.name)
    ELSE FindPeerByIDPrefix(r.prefix)

-----------------------------------------------------------------------------
(* Read. *)

\* Defect used to test the properties: names are entered as they are written in
\* the DNS, label by label, under the last one.
ReadPeerLastLabel ==
    /\ step = "peers" /\ Len(peers) < Len(input)
    /\ LET p == input[Len(peers) + 1] IN
         /\ peers' = Append(peers, p)
         /\ byName' = IF p.name = NoName THEN byName
                      ELSE Put(byName, <<Lower[p.name[Len(p.name)]]>>, p.id)
    /\ UNCHANGED <<input, refs, given, acl, step>>

\* The next peer; its name replaces the same name of an earlier one.
ReadPeer ==
    /\ step = "peers" /\ Len(peers) < Len(input)
    /\ LET p == input[Len(peers) + 1] IN
         /\ peers' = Append(peers, p)
         /\ byName' = IF p.name = NoName THEN byName ELSE Put(byName, LowerCase(p.name), p.id)
    /\ UNCHANGED <<input, refs, given, acl, step>>

\* The loops follow each other.
NextLoop ==
    /\ \/ step = "peers" /\ peers = input /\ step' = "white"
       \/ step = "white" /\ refs["white"] = {} /\ step' = "black"
       \/ step = "black" /\ refs["black"] = {} /\ step' = "done"
    /\ UNCHANGED <<input, refs, given, peers, byName, acl>>

\* A reference that is ambiguous, or of nobody, makes Read return an error.
ReadRef(l, r) ==
    /\ step = l /\ r \in refs[l]
    /\ LET found == FindPeerByCLIRef(r) IN
         IF found.ok /\ found.ids # {}
           THEN /\ acl' = [acl EXCEPT ![l] = @ \cup found.ids]
                /\ refs' = [refs EXCEPT ![l] = @ \ {r}]
                /\ UNCHANGED step
           ELSE step' = "failed" /\ UNCHANGED <<acl, refs>>
    /\ UNCHANGED <<input, given, peers, byName>>

\* An ID, a network or an address that does not parse.
Malformed ==
    /\ step \notin {"done", "failed"}
    /\ step' = "failed"
    /\ UNCHANGED <<input, refs, given, peers, byName, acl>>

NamingNext == ReadPeer \/ NextLoop \/ Malformed \/ \E l \in Lists, r \in Ref : ReadRef(l, r)

NamingSpec == NamingInit /\ [][NamingNext]_namingVars

-----------------------------------------------------------------------------
(* The handler of the DNS server, for a name below its domain. *)

Node(id) == [for |-> "node", id |-> id]
ServiceOf(id, name) == [for |-> "service", id |-> id, name |-> name]
NoRecords == [for |-> "nobody"]
NoReply == [for |-> "nothing"]

\* The ID whose records answer for a node: an ID stands for itself, if it is
\* known; the name of the host comes before the names of peers, both whatever
\* their case.
NodeOf(label) ==
    IF label \in IDs \cup {Self}
      THEN {label} \cap ({Self} \cup {peers[i].id : i \in DOMAIN peers})
    ELSE IF Lower[label] = Hostname THEN {Self}
    ELSE IF <<Lower[label]>> \in DOMAIN byName THEN {byName[<<Lower[label]>>]}
    ELSE {}

\* One label is a node, two are a service of a node, others get no reply.  The
\* label of the service is taken as it is written.
MagicDns(q) ==
    IF Len(q) \notin {1, 2} THEN NoReply
    ELSE IF NodeOf(q[Len(q)]) = {} THEN NoRecords
    ELSE LET id == CHOOSE id \in NodeOf(q[Len(q)]) : TRUE
         IN  IF Len(q) = 1 THEN Node(id) ELSE ServiceOf(id, q[1])

-----------------------------------------------------------------------------
(* Properties. *)

Named == {i \in DOMAIN peers : peers[i].name # NoName}

\* Its name is one label, that no other entry has in any case, and that is not the
\* name of the host.
OwnName(i) ==
    /\ Len(peers[i].name) = 1 /\ Lower[Head(peers[i].name)] # Hostname
    /\ \A j \in DOMAIN peers \ {i} : LowerCase(peers[j].name) # LowerCase(peers[i].name)

\* A name that one peer has means that peer wherever it is used: in the DNS, in
\* any case, unless it is an ID there; for its services; and as a reference.
NamesAgree ==
    step = "done" => \A i \in Named : OwnName(i) =>
        /\ \A x \in Labels \ (IDs \cup {Self}) : Lower[x] = Lower[Head(peers[i].name)] =>
             /\ MagicDns(<<x>>) = Node(peers[i].id)
             /\ \A service \in Labels :
                  MagicDns(<<service, x>>) = ServiceOf(peers[i].id, service)
        /\ FindPeerByCLIRef([by |-> "name", name |-> peers[i].name]) = Found(peers[i])

Denotes(r, p) ==
    \/ r.by = "name" /\ p.name = r.name
    \/ r.by = "prefix" /\ p.id \in Matches[r.prefix]

\* The lists of a configuration that was accepted are the ones in the file: each
\* reference put in a peer it denotes, a prefix the only entry it denotes, and
\* nothing else is in them.
ListsAsGiven ==
    step = "done" => \A l \in Lists :
        /\ \A r \in given[l] : \E i \in DOMAIN peers :
             /\ Denotes(r, peers[i]) /\ peers[i].id \in acl[l]
             /\ r.by = "prefix" => \A j \in DOMAIN peers : Denotes(r, peers[j]) => j = i
        /\ \A id \in acl[l] : \E r \in given[l], i \in DOMAIN peers :
             Denotes(r, peers[i]) /\ peers[i].id = id
=============================================================================
