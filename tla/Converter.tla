------------------------------ MODULE Converter ------------------------------
(***************************************************************************)
(* The two converters of the ACI universe.  AimToAciModelConverter turns   *)
(* AIM resources into the objects of the APIC; AciToAimModelConverter      *)
(* turns objects, in whatever order they are listed or reported, back into *)
(* resources, and squashes those with the same identity into one.          *)
(*                                                                         *)
(* A behaviour converts one batch and reads its objects back one by one:   *)
(* every list order, and every part of the list, is a prefix of it.        *)
(***************************************************************************)
EXTENDS ConversionRules, FiniteSets, SequencesExt

CONSTANTS
    Classes,      \* the classes of the resources that are converted
    Twins,        \* those of which two are converted in one batch
    MaxSet,       \* bound: attributes that are not empty
    MaxChain,     \* bound: nodes of a service graph
    MaxShuffled   \* bound: objects at the end of the list that come in every order

ASSUME ConverterAssumption == Classes \subseteq Converted /\ Twins \subseteq Classes

VARIABLES
    batch,        \* the AIM resources that are converted
    wire,         \* the objects of the APIC that are not read yet
    got,          \* res_map: class, owner and name :> the resource read so far
    items         \* list_dict_by_id: class, attribute and key :> the resource with the entry

conversionVars == <<batch, wire, got, items>>

-----------------------------------------------------------------------------
(* Resources.  A resource has a name below its owner; the owner of the     *)
(* resources of a batch is the batch's own name for them.  The value of an *)
(* attribute is a set of entries <<key, part>>: none if it is empty, one   *)
(* for a scalar.                                                           *)

SystemClasses == {"SystemSecurityGroup", "SystemSecurityGroupSubject", "SystemSecurityGroupRule"}

\* Attributes that no object carries.  Those of device clusters, contexts and service
\* graphs become resources of their own; of the others the APIC hears nothing.
Unsent == [k \in Converted |->
    CASE k \in {"L3OutInterface", "EPGStaticPath", "ConcreteDeviceInterface"} -> {"host"}
      [] k = "SecurityGroupRule" -> {"remote_group_id"}
      [] k = "ExternalNetwork" -> {"provided_contract_names", "consumed_contract_names"}
      [] k = "OutOfBandContractSubject" -> FiltersAndGraphs
      [] k = "VMMPolicy" -> {"display_name"}
      [] k = "AciFault" -> {"status_id", "last_update_timestamp", "lifecycle_status"}
      [] k = "DeviceCluster" -> {"encap", "devices"}
      [] k = "DeviceClusterContext" ->
            {"service_redirect_policy_name", "service_redirect_policy_tenant_name",
             "bridge_domain_name", "bridge_domain_tenant_name"}
      [] k = "ServiceGraph" -> {"linear_chain_nodes"}
      [] OTHER -> {}]

\* Attributes whose entries come together from several objects
ListKinds == {"each", "items", "domains"}
\* The two pairs of lists that name the domains of an endpoint group
VmmLists == {"vmm_domains", "openstack_vmm_domain_names"}
PhysicalLists == {"physical_domains", "physical_domain_names"}
\* Classes that conversions generate
GeneratedClasses ==
    {"DeviceClusterInterface", "ConcreteDevice", "ConcreteDeviceInterface",
     "DeviceClusterInterfaceContext", "ServiceGraphNode", "ServiceGraphConnection"}

\* What the converters rely on in the resource maps: the schema of a DN tells the rule,
\* but for security groups; no rule carries what is not sent; lists have rules of their
\* own, with one list each but for the domains; references, domains and lists of
\* dictionaries are sent without conditions, and no resource that is generated or
\* generates others has a list of dictionaries.
ASSUME RulesAssumption ==
    /\ \A q, r \in Rules :
          /\ q.mo = r.mo => q = r \/ (q.klass \in SystemClasses) # (r.klass \in SystemClasses)
          /\ q.klass = r.klass /\ q.attrs \cap r.attrs # {} =>
                (q.kind \in ListKinds <=> r.kind \in ListKinds)
    /\ \A r \in Rules :
          /\ r.kind \in ListKinds \cup {"object", "reference", "container", "terminal"}
          /\ r.attrs \cap Unsent[r.klass] = {}
          /\ r.kind \in {"each", "items"} => \E a \in r.attrs : r.attrs = {a}
          /\ r.kind = "domains" => r.attrs \in {VmmLists, PhysicalLists}
          /\ r.kind # "domains" => r.attrs \cap (VmmLists \cup PhysicalLists) = {}
          /\ r.kind \in {"container", "terminal"} => r.attrs = {}
          /\ (r.when \cup r.unless) \cap (VmmLists \cup PhysicalLists) = {}
          /\ r.kind \in {"reference", "domains", "items"} => r.when = {} /\ r.unless = {}
          /\ r.kind = "items" =>
                r.klass \notin GeneratedClasses \cup {"ServiceGraph", "DeviceClusterContext"}

AttrsOf(k) == (UNION {r.attrs \cup r.skip : r \in RulesOf(k)}) \cup Unsent[k]

\* klass(...): a resource with all its defaults
Default(k) == [a \in AttrsOf(k) |-> {}]
Resource(k, owner, name, flag) ==
    [klass |-> k, owner |-> owner, name |-> name, flag |-> flag, val |-> Default(k)]
Key(res) == <<res.klass, res.owner, res.name>>

Given(res, given) == [res EXCEPT !.val = [a \in DOMAIN res.val |->
                                            IF a \in DOMAIN given THEN given[a] ELSE res.val[a]]]

-----------------------------------------------------------------------------
(* service_graph.py: resources that a conversion generates.                *)

Plain(x) == {<<x, "">>}

\* device_cluster_converter: with an encapsulation, one logical interface of all the
\* interfaces of the devices.  An entry of devices is <<name, path>>; one without a name
\* is dropped, and one without a path has an interface without.
DeviceResources(res) ==
    LET named   == {e \in res.val["devices"] : e[1] # ""}
        devices == {e[1] : e \in named}
        PathOf(d) == {<<e[2], "">> : e \in {x \in named : x[1] = d /\ x[2] # ""}}
    IN
    {Given(Resource("DeviceClusterInterface", res.owner, "interface", "managed"),
           [rest |-> res.val["encap"], concrete_interfaces |-> {<<d, "">> : d \in devices}])
        : e \in res.val["encap"]}
    \cup {Resource("ConcreteDevice", res.owner, d, "managed") : d \in devices}
    \cup {Given(Resource("ConcreteDeviceInterface", res.owner, d, "managed"), [path |-> PathOf(d)])
        : d \in devices}

\* device_cluster_context_converter: the contexts of the two connectors, once cluster,
\* bridge domain and redirect policy are all known
ContextResources(res) ==
    LET v == res.val IN
    {Given(Resource("DeviceClusterInterfaceContext", res.owner, connector, "managed"),
           [device_cluster_interface_dn |-> v["device_cluster_name"],
            bridge_domain_dn |-> v["bridge_domain_name"],
            service_redirect_policy_dn |-> v["service_redirect_policy_name"]])
        : connector \in IF \A a \in {"device_cluster_name", "bridge_domain_name",
                                     "service_redirect_policy_name"} : v[a] # {}
                        THEN {"consumer", "provider"} ELSE {}}

\* linear_chain_nodes is a list: entry <<node, position>>, positions as strings.  Nodes
\* without a name are dropped.
Positions == <<"1", "2", "3", "4">>
NamedIn(entries) ==
    LET At(i) == {e \in entries : e[2] = Positions[i]}
        chain == [i \in 1..Cardinality(entries) |-> (CHOOSE e \in At(i) : TRUE)[1]]
    IN  SelectSeq(chain, LAMBDA n : n # "")
Named(res) == NamedIn(res.val["linear_chain_nodes"])

\* The connector before the i-th connection, and the one after it: the terminals T1 and T2
\* at the ends, connectors of the nodes in between
Terminal(t) == <<t, "">>
PrevConnNotCrossed(nodes, i) == IF i = 1 THEN Terminal("T1") ELSE <<nodes[i - 1], "consumer">>  \* mutant
PrevConn(nodes, i) == IF i = 1 THEN Terminal("T1") ELSE <<nodes[i - 1], "provider">>
NextConn(nodes, i) == IF i > Len(nodes) THEN Terminal("T2") ELSE <<nodes[i], "consumer">>

\* The device cluster that a node of the chain names, and its tenant: the last one names none.
ClusterOf(node) == IF node = "n3" THEN {} ELSE Plain(node)

\* service_graph_converter: a node and a connection to it for each name, and one
\* connection more, none at all for an empty chain
GraphResources(res) ==
    LET nodes == Named(res) IN
    {Given(Resource("ServiceGraphNode", res.owner, nodes[i], "managed"),
           [rest |-> Plain(Positions[i]),
            device_cluster_name |-> ClusterOf(nodes[i]),
            device_cluster_tenant_name |-> ClusterOf(nodes[i]),
            connectors |-> {<<nodes[i], c>> : c \in {"consumer", "provider"}}])
        : i \in 1..Len(nodes)}
    \cup {Given(Resource("ServiceGraphConnection", res.owner, Positions[i], "managed"),
                [connector_dns |-> {PrevConn(nodes, i), NextConn(nodes, i)}])
        : i \in IF nodes = <<>> THEN {} ELSE 1..(Len(nodes) + 1)}

\* Pre-existing resources have no object of their own, and generate none.
Generated(res) ==
    IF res.flag = "pre" THEN {}
    ELSE CASE res.klass = "DeviceCluster" -> DeviceResources(res)
           [] res.klass = "DeviceClusterContext" -> ContextResources(res)
           [] res.klass = "ServiceGraph" -> GraphResources(res)
           [] OTHER -> {}

-----------------------------------------------------------------------------
(* AimToAciModelConverter.convert                                          *)

\* The rules that are used for a resource
Applies(r, res) ==
    /\ r.klass = res.klass
    /\ res.flag = "pre" => r.pre
    /\ res.flag = "monitored" => r.mon

Empty == [a \in {} |-> {}]
\* device_cluster_context_converter: a cluster without a tenant is one of the own tenant
Filled(res) ==
    IF res.klass = "DeviceClusterContext" /\ res.val["device_cluster_tenant_name"] = {}
       /\ res.val["device_cluster_name"] # {}
    THEN Given(res, [device_cluster_tenant_name |-> Plain("own")])
    ELSE res

\* What the objects of a rule carry: attribute :> entries, one function for each object
Due(r, val) == (\A a \in r.when : val[a] # {}) /\ (\A a \in r.unless : val[a] = {})
Whole(r, val) == [a \in r.attrs |-> val[a]]

\* default_converter
ObjectPayload(r, val) == IF Due(r, val) THEN {Whole(r, val)} ELSE {}
\* child_list
EachPayload(r, val) ==
    IF Due(r, val) THEN {[a \in r.attrs |-> {e}] : e \in UNION {val[a] : a \in r.attrs}} ELSE {}
\* list_dict, with "requires"
ItemPayload(r, val) == {p \in EachPayload(r, val) : \A a \in r.attrs : \A e \in p[a] : e[2] = r.part}
\* fv_rs_dom_att_converter: one object for a domain that is in both lists
DomainPayloadOneList(r, val) ==  \* mutant: the names of OpenStack domains are forgotten
    EachPayload(r, [val EXCEPT !["openstack_vmm_domain_names"] = {}])
DomainPayload(r, val) == EachPayload(r, val)
\* dn_decomposer: the DN is empty unless all its parts are known, and then tells nothing
ReferencePayload(r, val) == {IF \A a \in r.attrs : val[a] # {} THEN Whole(r, val) ELSE Empty}
\* to_resource_filter_container
ContainerPayload(r, val) == IF \E a \in r.when : val[a] # {} THEN {Empty} ELSE {}

Payloads(r, val) ==
    CASE r.kind = "object" -> ObjectPayload(r, val)
      [] r.kind = "each" -> EachPayload(r, val)
      [] r.kind = "items" -> ItemPayload(r, val)
      [] r.kind = "domains" -> DomainPayload(r, val)
      [] r.kind = "reference" -> ReferencePayload(r, val)
      [] r.kind = "container" -> ContainerPayload(r, val)
      [] r.kind = "terminal" -> {Empty}

\* The DN of an object: its schema, the names of the resource it is of, and for the
\* objects of list entries what they carry
ObjectsOf(res) ==
    UNION {{[mo |-> r.mo, owner |-> res.owner, name |-> res.name, val |-> p]
                : p \in Payloads(r, Filled(res).val)}
           : r \in {q \in Rules : Applies(q, res)}}

Sources(resources) == UNION {{res} \cup Generated(res) : res \in resources}
AimToAci(resources) == UNION {ObjectsOf(res) : res \in Sources(resources)}

-----------------------------------------------------------------------------
(* AciToAimModelConverter.convert and _squash                              *)

\* Two classes have the schemas of security groups: hostprot_*_converter looks for the
\* name of the system's group in the DN.
RuleFor(o) ==
    LET rules == {r \in Rules : r.mo = o.mo}
    IN  CHOOSE r \in rules :
            \/ \A q \in rules : q = r
            \/ r.klass \in SystemClasses <=> o.owner = "SystemSecurityGroup"

\* fv_rs_dom_att_converter: only domains of OpenStack are in the second list too
ReadAnyType(o) == o.val  \* mutant: the type of the domain is not looked at
Read(o) ==
    [a \in DOMAIN o.val |->
        IF a = "openstack_vmm_domain_names" THEN {e \in o.val[a] : e[2] = "OpenStack"} ELSE o.val[a]]

\* list_dict entries are found by class, attribute and key in list_dict_by_id, so that the
\* parts of one entry come together
ItemsOf(r, val) ==
    IF r.kind # "items" THEN {}
    ELSE {<<r.klass, a, e[1]>> : a \in r.attrs, e \in UNION {val[b] : b \in r.attrs}}

\* Lists are appended to, other attributes are set.
MergeLast(r, val, read) ==  \* mutant: lists are set as well
    [a \in DOMAIN val |-> IF a \in DOMAIN read THEN read[a] ELSE val[a]]
Merge(r, val, read) ==
    [a \in DOMAIN val |->
        IF a \notin DOMAIN read THEN val[a]
        ELSE IF r.kind \in ListKinds THEN val[a] \cup read[a] ELSE read[a]]

Squash(r, key, read) ==
    LET base == IF key \in DOMAIN got THEN got
                ELSE [k \in DOMAIN got \cup {key} |-> IF k = key THEN Default(r.klass) ELSE got[k]]
        known == ItemsOf(r, read) \cap DOMAIN items
        target == IF known = {} THEN key ELSE items[CHOOSE i \in known : TRUE]
    IN  /\ got' = [base EXCEPT ![target] = Merge(r, @, read)]
        /\ items' = [i \in DOMAIN items \cup ItemsOf(r, read) |->
                        IF i \in DOMAIN items THEN items[i] ELSE key]

\* The next object of the list
Convert(o) ==
    /\ o \in wire
    /\ wire' = wire \ {o}
    /\ Squash(RuleFor(o), <<RuleFor(o).klass, o.owner, o.name>>, Read(o))
    /\ UNCHANGED batch

-----------------------------------------------------------------------------
(* The batches: one resource, or two that have the same attributes set.    *)

Lists(k) == (UNION {r.attrs : r \in {q \in RulesOf(k) : q.kind \in ListKinds}})
            \cup ({"devices"} \cap AttrsOf(k))

\* Lists of the first resource have two entries; the second shares one of them.
Filling(k, a, first) ==
    LET two == IF first THEN {"a", "b"} ELSE {"a"} IN
    CASE a = "vmm_domains" ->
            {<<"a", "OpenStack">>} \cup (IF first THEN {<<"b", "Kubernetes">>} ELSE {})
      [] a = "openstack_vmm_domain_names" -> {<<"a", "OpenStack">>, <<"c", "OpenStack">>}
      [] a = "destinations" ->
            {<<x, "">> : x \in two}
            \cup (IF first THEN {<<"a", "redirect_health_group_dn">>} ELSE {})
      [] a = "devices" ->
            {<<"a", "path">>, <<"", "path">>} \cup (IF first THEN {<<"b", "">>} ELSE {})
      [] a \in Lists(k) \ (VmmLists \cup {"destinations"}) -> {<<x, "">> : x \in two}
      [] OTHER -> IF first THEN Plain("r1") ELSE Plain("r2")

\* Chains of nodes with different names, some of them without one
Chains ==
    {c \in BoundedSeq({"n1", "n2", "n3", ""}, MaxChain) :
        \A i, j \in 1..Len(c) : i # j /\ c[i] = c[j] => c[i] = ""}
ChainVal(c) == {<<c[i], Positions[i]>> : i \in 1..Len(c)}

\* There are positions for all connections, and the names of a chain are distinct once
\* those that are empty are dropped.
ASSUME ChainAssumption ==
    /\ MaxChain \in 0..3
    /\ NamedIn({}) = <<>>
    /\ \A c \in Chains :
          LET nodes == NamedIn(ChainVal(c))
          IN  /\ nodes \in Seq({"n1", "n2", "n3"}) /\ Len(nodes) <= MaxChain
              /\ \A i, j \in 1..Len(nodes) : nodes[i] = nodes[j] => i = j

OwnerName(k, first) ==
    IF k \in SystemClasses THEN "SystemSecurityGroup" ELSE IF first THEN "r1" ELSE "r2"

Filling2(k, set, first) == [a \in set |-> Filling(k, a, first)]

ConversionInit ==
    /\ \E k \in Classes, flag \in {"managed", "monitored", "pre"} :
        LET R(first) == Resource(k, OwnerName(k, first), "", flag) IN
        \/ \E set \in {s \in SUBSET (AttrsOf(k) \ {"linear_chain_nodes"}) : Cardinality(s) <= MaxSet} :
            \/ batch = {Given(R(TRUE), Filling2(k, set, TRUE))}
            \/ /\ k \in Twins
               /\ batch = {Given(R(first), Filling2(k, set, first)) : first \in BOOLEAN}
        \/ /\ k = "ServiceGraph"
           /\ \E c \in Chains : batch = {Given(R(TRUE), [linear_chain_nodes |-> ChainVal(c)])}
    /\ wire = AimToAci(batch)
    /\ got = Empty
    /\ items = Empty

\* The first objects of a long list come in one order.
Upcoming == IF Cardinality(wire) <= MaxShuffled THEN wire ELSE {CHOOSE o \in wire : TRUE}

ConversionNext == \E o \in Upcoming : Convert(o)

ConversionSpec == ConversionInit /\ [][ConversionNext]_conversionVars

-----------------------------------------------------------------------------
(* Properties                                                              *)

\* Type invariant: a resource that is read has all the attributes of its class.
ConversionTypeOK ==
    /\ \A key \in DOMAIN got : key[1] \in Converted /\ DOMAIN got[key] = AttrsOf(key[1])
    /\ \A i \in DOMAIN items : items[i] \in DOMAIN got

\* No two resources of a batch are of a class whose list entries are dictionaries, which
\* _squash finds without the identity of their resource, or belong to the one security
\* group of the system.
TwinsApart ==
    \A k \in Twins : k \notin SystemClasses /\ \A r \in RulesOf(k) : r.kind # "items"

\* The value of a resource as the APIC can tell it: a domain is the same whichever of the
\* two lists of an endpoint group names it, and a cluster has a tenant.
Normal(res) ==
    LET v == Filled(res).val IN
    [a \in DOMAIN v |->
        CASE a = "vmm_domains" -> v[a] \cup v["openstack_vmm_domain_names"]
          [] a = "openstack_vmm_domain_names" ->
                {e \in v["vmm_domains"] \cup v[a] : e[2] = "OpenStack"}
          [] a \in {"physical_domains", "physical_domain_names"} ->
                v["physical_domains"] \cup v["physical_domain_names"]
          [] OTHER -> v[a]]

\* Whatever part of the objects is read, in whatever order: each resource that comes out
\* is one that was converted, and nothing is in it that was not in that resource before
\* (_squash: objects with the same identity, and no others, come together).
NothingInvented ==
    \A key \in DOMAIN got : \E res \in Sources(batch) :
        /\ Key(res) = key
        /\ \A a \in DOMAIN got[key] : got[key][a] \subseteq Normal(res)[a]

\* No attribute needs another one that is missing: the parts of a reference, the first
\* address of an interface, the encapsulation of a static path.
CoherentSet(k, set) ==
    /\ \A r \in RulesOf(k) :
        (r.kind = "reference" \/ (r.kind = "object" /\ r.when # {} /\ r.when = r.attrs)) =>
            r.attrs \subseteq set \/ r.attrs \cap set = {}
    /\ k = "L3OutInterface" =>
        /\ "secondary_addr_a_list" \in set => "primary_addr_a" \in set
        /\ "primary_addr_b" \in set => "primary_addr_a" \in set
        /\ "secondary_addr_b_list" \in set => "primary_addr_b" \in set
    /\ k = "EPGStaticPath" => "encap" \in set
SetAttrs(res) == {a \in AttrsOf(res.klass) : Filled(res).val[a] # {}}
Coherent(res) == CoherentSet(res.klass, SetAttrs(res))

\* The rules that send their attributes when those in set are not empty, and what they send
DueSet(r, set) == r.when \subseteq set /\ r.unless \cap set = {}
InUse(k, set) ==
    {r \in RulesOf(k) : DueSet(r, set) /\ (r.kind = "reference" => r.attrs \subseteq set)}
Carried(k, set) == {a \in set : \E r \in InUse(k, set) : a \in r.attrs}

\* The resource maps are complete: whichever attributes of a resource are set, if they are
\* coherent there is an object for it, and an object for each of them that is sent.  They
\* are stable: what is carried makes the same rules apply again, coherent or not.  Rules
\* are about attributes of their class; the domains of a class have all their lists; and
\* there is a rule for every part that the entries of a list of dictionaries have.  What
\* is generated is of these classes, and connections are coherent whatever they connect.
ASSUME MapsAssumption ==
    /\ GeneratedClasses \subseteq Converted
    /\ "connector_dns" \in AttrsOf("ServiceGraphConnection")
    /\ {"device_cluster_name", "device_cluster_tenant_name"} \subseteq AttrsOf("DeviceClusterContext")
    /\ \A set \in SUBSET AttrsOf("ServiceGraphConnection") : CoherentSet("ServiceGraphConnection", set)
    /\ \A k \in Converted : \A set \in SUBSET AttrsOf(k) :
          /\ CoherentSet(k, set) =>
                /\ \E r \in InUse(k, set) : r.kind = "object"
                /\ set \ Unsent[k] \subseteq Carried(k, set)
          /\ \A r \in RulesOf(k) :
                /\ DueSet(r, set) <=> DueSet(r, Carried(k, set))
                /\ r.kind = "reference" /\ r.attrs \subseteq set => r.attrs \subseteq Carried(k, set)
                /\ r.kind = "container" /\ r.when \cap set # {} => r.when \cap Carried(k, set) # {}
          /\ k = "DeviceClusterContext" /\ "device_cluster_name" \in Carried(k, set) =>
                "device_cluster_tenant_name" \in Carried(k, set)
    /\ \A k \in Converted :
        /\ \A r \in RulesOf(k) : (r.when \cup r.unless) \subseteq AttrsOf(k)
        /\ \A lists \in {VmmLists, PhysicalLists} :
              AttrsOf(k) \cap lists # {} => lists \subseteq AttrsOf(k) \ Unsent[k]
        /\ \A r \in {q \in RulesOf(k) : q.kind = "items"} :
              \A a \in r.attrs, first \in BOOLEAN : \A e \in Filling(k, a, first) :
                  \E q \in RulesOf(k) : q.kind = "items" /\ q.attrs = r.attrs /\ q.part = e[2]

\* When all the objects of resources that AIM owns are read, every resource is back with
\* all that an object carries, and with nothing in the attributes no object carries
\* (AimToAciModelConverter and AciToAimModelConverter are inverse to each other).
RoundTrip ==
    wire = {} =>
        \A res \in Sources(batch) :
            res.flag = "managed" /\ Coherent(res) =>
                /\ Key(res) \in DOMAIN got
                /\ \A a \in AttrsOf(res.klass) :
                    got[Key(res)][a] = IF a \in Unsent[res.klass] THEN {} ELSE Normal(res)[a]

\* Converting again what was read gives the same objects: the trees of both universes
\* agree about a resource that is on the APIC, however incomplete it was.
Stable ==
    wire = {} /\ (\A res \in batch : res.flag = "managed") =>
        AimToAci({[klass |-> key[1], owner |-> key[2], name |-> key[3], flag |-> "managed",
                   val |-> got[key]] : key \in DOMAIN got})
            = AimToAci(batch)

\* The connectors from the consumer's terminal to the provider's: in at the consumer side
\* of every node and out at its provider side
Path(nodes) ==
    LET last == 2 * Len(nodes) + 2 IN
    [p \in 1..last |->
        IF p = 1 THEN Terminal("T1")
        ELSE IF p = last THEN Terminal("T2")
        ELSE <<nodes[p \div 2], IF p % 2 = 0 THEN "consumer" ELSE "provider">>]

\* The connections that are read of a service graph make one path from the consumer's
\* terminal to the provider's that passes every node in the order of the chain, in at its
\* consumer side and out at its provider side; no node is left beside it.
ChainConnected ==
    wire = {} =>
        \A res \in batch :
            res.klass = "ServiceGraph" /\ res.flag # "pre" =>
                LET nodes == Named(res)
                    connections == {got[key]["connector_dns"] :
                                        key \in {k \in DOMAIN got : k[1] = "ServiceGraphConnection"}}
                IN  connections =
                        IF nodes = <<>> THEN {}
                        ELSE {{Path(nodes)[2 * i - 1], Path(nodes)[2 * i]} : i \in 1..(Len(nodes) + 1)}
=============================================================================
