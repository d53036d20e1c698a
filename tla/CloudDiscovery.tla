---------------------------- MODULE CloudDiscovery ----------------------------
(* src/internal/system/clouddiscovery: from the names of hosts to the Compute Engine
   resources behind them and all those related, breadth first, with a cache that
   outlives the discovery. *)
EXTENDS Naturals, Sequences

CONSTANTS
    Hosts,          \* host names
    Owner,          \* [IP addresses -> the URI of the resource that has it]
    Resolved,       \* [Hosts -> IP addresses]
    Kind,           \* [URIs -> "instance", "address", "group" or another kind]
    Related,        \* [URIs -> sequence of the names a description mentions]
    Backends,       \* the resources an address may lead to
    HostLists,      \* the lists of hosts a discovery may be given
    MaxDiscoveries, MaxFailures, MaxChanges

IPs == DOMAIN Owner
URIs == DOMAIN Kind
(* Whatever a resource may be mentioned under. *)
CloudNames == Hosts \cup IPs \cup URIs

ASSUME CloudAssumption ==
    /\ Hosts \cap IPs = {} /\ Hosts \cap URIs = {} /\ IPs \cap URIs = {}
    /\ Owner \in [IPs -> URIs] /\ Resolved \in [Hosts -> IPs]
    /\ Related \in [URIs -> Seq(CloudNames)] /\ Backends \subseteq URIs
    /\ HostLists \subseteq Seq(CloudNames)

VARIABLES
    user,       \* the resource that uses the addresses now
    objects,    \* resources as they were found: [uri, hostname, related, names, old]
    cache,      \* [names -> object]
    queue,      \* [name, parent] to discover, the parent an object or 0
    found,      \* objects of this discovery, in order
    seen,       \* names of this discovery
    hosts,      \* what it was given
    fetches,    \* URIs it asked Compute Engine for
    failures, changes, discoveries,
    since,      \* something changed that this discovery may not see
    missed      \* a request of this discovery failed

cdVars == <<user, objects, cache, queue, found, seen, hosts, fetches, failures, changes, discoveries, since, missed>>

CloudInit ==
    /\ user \in Backends
    /\ objects = <<>> /\ cache = <<>> /\ queue = <<>> /\ found = <<>> /\ seen = {} /\ hosts = <<>>
    /\ fetches = <<>> /\ failures = 0 /\ changes = 0 /\ discoveries = 0 /\ since = FALSE /\ missed = FALSE

Names(uri) == Related[uri] \o (IF Kind[uri] = "address" THEN <<user>> ELSE <<>>)

(* DiscoverComputeResources begins with the hosts, which have no parent here. *)
DiscoverComputeResources ==
    /\ queue = <<>> /\ discoveries < MaxDiscoveries
    /\ discoveries' = discoveries + 1
    /\ hosts' \in HostLists
    /\ queue' = [i \in DOMAIN hosts' |-> [name |-> hosts'[i], parent |-> 0]]
    /\ found' = <<>> /\ seen' = {} /\ fetches' = <<>> /\ missed' = FALSE
    /\ since' = (since /\ \E i \in DOMAIN objects : ~objects[i].old /\ objects[i].names # Names(objects[i].uri))
    /\ UNCHANGED <<user, objects, cache, failures, changes>>

Fresh(n) == n \in DOMAIN cache /\ ~objects[cache[n]].old
(* Mutant: an entry that exists is kept. *)
RememberKeepsOld(c, names, o) == [n \in DOMAIN c \cup names |-> IF n \in names \ DOMAIN c THEN o ELSE c[n]]

Remember(c, names, o) == [n \in DOMAIN c \cup names |-> IF n \in names THEN o ELSE c[n]]

(* The resource is one of this discovery: the virtual host name moves from a parent
   that is no instance to an instance, a host name stays with what it named, and what
   the description mentions is queued. *)
Accept(h, o, objs) ==
    LET p == h.parent
        moves == /\ p # 0 /\ Kind[objs[o].uri] = "instance"
                 /\ Kind[objs[p].uri] # "instance" /\ objs[p].hostname # ""
        moved == IF moves THEN [objs EXCEPT ![o].hostname = objs[p].hostname, ![p].hostname = ""] ELSE objs
    IN /\ objects' = IF h.name \in Hosts THEN [moved EXCEPT ![o].hostname = h.name] ELSE moved
       /\ queue' = Tail(queue) \o [i \in DOMAIN objs[o].names |-> [name |-> objs[o].names[i], parent |-> o]]
       /\ found' = Append(found, o)
       /\ seen' = seen \cup {h.name, objs[o].uri}

Pass == queue' = Tail(queue) /\ UNCHANGED <<objects, found, seen>>

(* A request to Compute Engine fails: the name is passed over, and may come again. *)
RequestFails == failures < MaxFailures /\ failures' = failures + 1 /\ missed' = TRUE /\ Pass /\ UNCHANGED fetches
Works == UNCHANGED <<failures, missed>>

(* discoverResourceForURI: the description of the resource as it is now.  An instance
   that was asked for under another name takes that name; a group lists its instances
   as related at once; parent and resource are related to each other; and every name
   it was found under leads to it. *)
Fetch(h, uri, names, c) ==
    LET o == Len(objects) + 1
        object == [uri |-> uri, names |-> Names(uri), old |-> FALSE,
                   hostname |-> IF uri # h.name /\ Kind[uri] = "instance" THEN h.name ELSE "",
                   related |-> (IF Kind[uri] = "group" THEN {Names(uri)[i] : i \in DOMAIN Names(uri)} ELSE {})
                                 \cup (IF h.parent # 0 THEN {objects[h.parent].uri} ELSE {})]
        parents == IF h.parent = 0 THEN objects ELSE [objects EXCEPT ![h.parent].related = @ \cup {uri}]
    IN \/ RequestFails /\ cache' = c
       \/ /\ Works
          /\ fetches' = Append(fetches, uri)
          /\ cache' = Remember(c, names \cup {uri}, o)
          /\ Accept(h, o, Append(parents, object))

(* discoverResource: the cache is asked under the name, the address and the URI; a
   finding that is too old is copied to the new names but not used. *)
DiscoverResource(h) ==
    LET addr == IF h.name \in Hosts THEN Resolved[h.name] ELSE h.name
        byAddr == IF addr \in DOMAIN cache THEN Remember(cache, {h.name}, cache[addr]) ELSE cache
        uri == IF addr \in IPs THEN Owner[addr] ELSE h.name
        byURI == IF uri \in DOMAIN cache THEN Remember(byAddr, {h.name, addr}, cache[uri]) ELSE byAddr
    IN IF Fresh(h.name) THEN Works /\ Accept(h, cache[h.name], objects) /\ UNCHANGED <<cache, fetches>>
       ELSE IF addr \notin IPs THEN Fetch(h, uri, {h.name}, cache)
       ELSE IF Fresh(addr) THEN Works /\ Accept(h, cache[addr], objects) /\ cache' = byAddr /\ UNCHANGED fetches
       ELSE \/ RequestFails /\ cache' = byAddr
            \/ Fresh(uri) /\ Works /\ Accept(h, cache[uri], objects) /\ cache' = byURI /\ UNCHANGED fetches
            \/ ~Fresh(uri) /\ Fetch(h, uri, {h.name, addr}, byURI)

(* One turn of the loop. *)
DiscoverNext ==
    /\ queue # <<>>
    /\ IF Head(queue).name \in seen
         THEN Pass /\ Works /\ UNCHANGED <<cache, fetches>>
         ELSE DiscoverResource(Head(queue))
    /\ UNCHANGED <<user, hosts, changes, discoveries, since>>

(* Between two discoveries the oldest findings reach the age of ten minutes and are
   not used any more. *)
Age ==
    /\ queue = <<>>
    /\ \E n \in DOMAIN objects :
         /\ ~objects[n].old
         /\ objects' = [i \in DOMAIN objects |-> [objects[i] EXCEPT !.old = @ \/ i <= n]]
    /\ UNCHANGED <<user, cache, queue, found, seen, hosts, fetches, failures, changes, discoveries, since, missed>>

(* The addresses lead to another resource. *)
FailOver ==
    /\ changes < MaxChanges /\ changes' = changes + 1
    /\ user' \in Backends \ {user}
    /\ since' = TRUE
    /\ UNCHANGED <<objects, cache, queue, found, seen, hosts, fetches, failures, discoveries, missed>>

CloudNext == DiscoverComputeResources \/ DiscoverNext \/ Age \/ FailOver
CloudSpec == CloudInit /\ [][CloudNext]_cdVars

------------------------------------------------------------------------------
URIOf(n) == IF n \in Hosts THEN Owner[Resolved[n]] ELSE IF n \in IPs THEN Owner[n] ELSE n

(* What is related, in any number of steps, to the hosts: the least set of resources
   that has theirs and all those its own descriptions mention. *)
Closed(S) == /\ \A i \in DOMAIN hosts : URIOf(hosts[i]) \in S
             /\ \A u \in S : \A i \in DOMAIN Names(u) : URIOf(Names(u)[i]) \in S
Reachable == {u \in URIs : \A S \in SUBSET URIs : Closed(S) => u \in S}

(* A resource whose description a discovery has got is not asked for again, under
   whatever names it is mentioned (cloud_discovery.go, discoverResource). *)
AsksOnce == \A i, j \in DOMAIN fetches : fetches[i] = fetches[j] => i = j

(* A discovery without failing requests finds everything that is related to its hosts
   as it is now, through any name and whatever the cache knows from before, unless
   something changed since the oldest finding it may use; and it asks for
   nothing again that was answered. *)
DiscoveryIsComplete ==
    queue = <<>> /\ discoveries > 0 =>
      /\ ~missed /\ ~since => {objects[found[i]].uri : i \in DOMAIN found} = Reachable
      /\ AsksOnce
==============================================================================
