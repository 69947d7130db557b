------------------------------- MODULE Schema -------------------------------
(***************************************************************************)
(* The classes of AIM resources that map to objects of the APIC            *)
(* (aim/api/resource.py, aim/api/service_graph.py, aim/api/infra.py).  Of  *)
(* each class the specifications need its parent in the tree of the APIC   *)
(* (_tree_parent), its identity attributes in their order, and whether it  *)
(* has the attribute "monitored" that says who owns an object.  The other  *)
(* attributes and their defaults are plain data, see RowStore.             *)
(***************************************************************************)
EXTENDS Naturals, Sequences, TLC

None == "None"

Class(k, parent, id) == k :> [parent |-> parent, id |-> id, monitored |-> TRUE]
\* A class without the attribute: getattr(obj, 'monitored', None) is None.
Unowned(k, parent, id) == k :> [parent |-> parent, id |-> id, monitored |-> FALSE]

TenantAndInfra ==
    Class("Tenant", None, <<"name">>)
    @@ Unowned("Infra", None, <<>>)
    @@ Class("NetflowVMMExporterPol", "Infra", <<"name">>)
    @@ Class("BridgeDomain", "Tenant", <<"tenant_name", "name">>)

NetworksAndGroups ==
    Class("Subnet", "BridgeDomain", <<"tenant_name", "bd_name", "gw_ip_mask">>)
    @@ Class("VRF", "Tenant", <<"tenant_name", "name">>)
    @@ Class("ApplicationProfile", "Tenant", <<"tenant_name", "name">>)
    @@ Class("EndpointGroup", "ApplicationProfile",
            <<"tenant_name", "app_profile_name", "name">>)

GroupChildrenAndFilters ==
    Class("EPGStaticPath", "EndpointGroup",
            <<"tenant_name", "app_profile_name", "epg_name", "path">>)
    @@ Class("EPGSubnet", "EndpointGroup",
            <<"tenant_name", "app_profile_name", "epg_name", "gw_ip_mask">>)
    @@ Class("Filter", "Tenant", <<"tenant_name", "name">>)
    @@ Class("FilterEntry", "Filter", <<"tenant_name", "filter_name", "name">>)

Contracts ==
    Class("Contract", "Tenant", <<"tenant_name", "name">>)
    @@ Class("ContractSubject", "Contract", <<"tenant_name", "contract_name", "name">>)
    @@ Class("OutOfBandContract", "Tenant", <<"tenant_name", "name">>)
    @@ Class("OutOfBandContractSubject", "OutOfBandContract",
            <<"tenant_name", "contract_name", "name">>)

DomainsAndL3Outs ==
    Class("VMMPolicy", None, <<"type">>)
    @@ Class("VMMDomain", "VMMPolicy", <<"type", "name">>)
    @@ Class("PhysicalDomain", None, <<"name">>)
    @@ Class("L3Outside", "Tenant", <<"tenant_name", "name">>)
    @@ Class("L3OutNodeProfile", "L3Outside", <<"tenant_name", "l3out_name", "name">>)

L3OutChildren ==
    Class("L3OutNode", "L3OutNodeProfile",
            <<"tenant_name", "l3out_name", "node_profile_name", "node_path">>)
    @@ Class("L3OutStaticRoute", "L3OutNode",
            <<"tenant_name", "l3out_name", "node_profile_name", "node_path", "cidr">>)
    @@ Class("L3OutInterfaceProfile", "L3OutNodeProfile",
            <<"tenant_name", "l3out_name", "node_profile_name", "name">>)
    @@ Class("L3OutInterface", "L3OutInterfaceProfile",
            <<"tenant_name", "l3out_name", "node_profile_name", "interface_profile_name", "interface_path">>)
    @@ Class("L3OutInterfaceBgpPeerP", "L3OutInterface",
            <<"tenant_name", "l3out_name", "node_profile_name", "interface_profile_name", "interface_path", "addr">>)

ExternalNetworksAndSecurityGroups ==
    Class("ExternalNetwork", "L3Outside", <<"tenant_name", "l3out_name", "name">>)
    @@ Class("ExternalNetworkProvidedContract", "ExternalNetwork",
            <<"tenant_name", "l3out_name", "ext_net_name", "name">>)
    @@ Class("ExternalNetworkConsumedContract", "ExternalNetwork",
            <<"tenant_name", "l3out_name", "ext_net_name", "name">>)
    @@ Class("ExternalSubnet", "ExternalNetwork",
            <<"tenant_name", "l3out_name", "external_network_name", "cidr">>)
    @@ Class("SecurityGroup", "Tenant", <<"tenant_name", "name">>)
    @@ Class("SecurityGroupSubject", "SecurityGroup",
            <<"tenant_name", "security_group_name", "name">>)

RulesAndControllers ==
    Class("SecurityGroupRule", "SecurityGroupSubject",
            <<"tenant_name", "security_group_name", "security_group_subject_name", "name">>)
    @@ Unowned("Topology", None, <<>>)
    @@ Class("Pod", "Topology", <<"name">>)
    @@ Class("VMMController", "VMMDomain", <<"domain_type", "domain_name", "name">>)
    @@ Unowned("VmmInjectedNamespace", "VMMController",
            <<"domain_type", "domain_name", "controller_name", "name">>)

InjectedObjects ==
    Unowned("VmmInjectedDeployment", "VmmInjectedNamespace",
            <<"domain_type", "domain_name", "controller_name", "namespace_name", "name">>)
    @@ Unowned("VmmInjectedReplicaSet", "VmmInjectedNamespace",
            <<"domain_type", "domain_name", "controller_name", "namespace_name", "name">>)
    @@ Unowned("VmmInjectedService", "VmmInjectedNamespace",
            <<"domain_type", "domain_name", "controller_name", "namespace_name", "name">>)
    @@ Unowned("VmmInjectedHost", "VMMController",
            <<"domain_type", "domain_name", "controller_name", "name">>)
    @@ Unowned("VmmInjectedContGroup", "VmmInjectedNamespace",
            <<"domain_type", "domain_name", "controller_name", "namespace_name", "name">>)

QosAndVswitch ==
    Class("QosRequirement", "Tenant", <<"tenant_name", "name">>)
    @@ Class("QosDppPol", "Tenant", <<"tenant_name", "name">>)
    @@ Class("VmmVswitchPolicyGroup", "VMMDomain", <<"domain_type", "domain_name">>)
    @@ Class("VmmRelationToExporterPol", "VmmVswitchPolicyGroup",
            <<"domain_type", "domain_name", "netflow_path">>)

SpanClasses ==
    Class("SpanVsourceGroup", "Infra", <<"name">>)
    @@ Class("SpanVsource", "SpanVsourceGroup", <<"vsg_name", "name">>)
    @@ Class("SpanVdestGroup", "Infra", <<"name">>)
    @@ Class("SpanVdest", "SpanVdestGroup", <<"vdg_name", "name">>)
    @@ Class("SpanVepgSummary", "SpanVdest", <<"vdg_name", "vd_name">>)
    @@ Class("InfraAccBundleGroup", "Infra", <<"name">>)

PortGroupsAndSystemSecurityGroups ==
    Class("InfraAccPortGroup", "Infra", <<"name">>)
    @@ Class("SpanSpanlbl", "SpanVsourceGroup", <<"vsg_name", "name">>)
    @@ Class("SystemSecurityGroup", "Tenant", <<"tenant_name", "name">>)
    @@ Class("SystemSecurityGroupSubject", "SystemSecurityGroup",
            <<"tenant_name", "security_group_name", "name">>)
    @@ Class("SystemSecurityGroupRule", "SystemSecurityGroupSubject",
            <<"tenant_name", "security_group_name", "security_group_subject_name", "name">>)

RemoteIps ==
    Class("SecurityGroupRemoteIpContainer", "SecurityGroup",
            <<"tenant_name", "security_group_name">>)
    @@ Class("SecurityGroupRemoteIp", "SecurityGroupRemoteIpContainer",
            <<"tenant_name", "security_group_name", "addr">>)

Devices ==
    Class("DeviceCluster", "Tenant", <<"tenant_name", "name">>)
    @@ Class("DeviceClusterInterface", "DeviceCluster",
            <<"tenant_name", "device_cluster_name", "name">>)
    @@ Class("ConcreteDevice", "DeviceCluster",
            <<"tenant_name", "device_cluster_name", "name">>)
    @@ Class("ConcreteDeviceInterface", "ConcreteDevice",
            <<"tenant_name", "device_cluster_name", "device_name", "name">>)
    @@ Class("ServiceGraph", "Tenant", <<"tenant_name", "name">>)

GraphsAndRedirects ==
    Class("ServiceGraphConnection", "ServiceGraph",
            <<"tenant_name", "service_graph_name", "name">>)
    @@ Class("ServiceGraphNode", "ServiceGraph",
            <<"tenant_name", "service_graph_name", "name">>)
    @@ Class("ServiceRedirectMonitoringPolicy", "Tenant", <<"tenant_name", "name">>)
    @@ Class("ServiceRedirectHealthGroup", "Tenant", <<"tenant_name", "name">>)
    @@ Class("ServiceRedirectPolicy", "Tenant", <<"tenant_name", "name">>)

DeviceContexts ==
    Class("DeviceClusterContext", "Tenant",
            <<"tenant_name", "contract_name", "service_graph_name", "node_name">>)
    @@ Class("DeviceClusterInterfaceContext", "DeviceClusterContext",
            <<"tenant_name", "contract_name", "service_graph_name", "node_name", "connector_name">>)

OpflexDevices ==
    Unowned("OpflexDevice", "Pod",
            <<"pod_id", "node_id", "bridge_interface", "dev_id">>)

\* AimManager.aim_resources, the classes with a _tree_parent
Classes ==
    TenantAndInfra @@ NetworksAndGroups @@ GroupChildrenAndFilters @@ Contracts
    @@ DomainsAndL3Outs @@ L3OutChildren @@ ExternalNetworksAndSecurityGroups
    @@ RulesAndControllers @@ InjectedObjects @@ QosAndVswitch @@ SpanClasses
    @@ PortGroupsAndSystemSecurityGroups @@ RemoteIps @@ Devices
    @@ GraphsAndRedirects @@ DeviceContexts @@ OpflexDevices

Klasses == DOMAIN Classes

\* The class and the classes it is under, by _tree_parent.
Lineage[k \in Klasses] ==
    {k} \cup IF Classes[k].parent = None THEN {} ELSE Lineage[Classes[k].parent]

\* The classes are a forest, in which identities do not get shorter from a parent to
\* its children.
ASSUME SchemaAssumption ==
    \A k \in Klasses :
        LET p == Classes[k].parent
        IN  /\ Classes[k].id \in Seq(STRING)
            /\ p = None => Lineage[k] = {k}
            /\ p # None => /\ p \in Klasses \ {k}
                            /\ Lineage[k] = {k} \cup Lineage[p]
            /\ \A j \in Lineage[k] :
                  /\ j \in Klasses
                  /\ Lineage[j] \subseteq Lineage[k]
                  /\ k \in Lineage[j] => j = k
                  /\ Len(Classes[j].id) <= Len(Classes[k].id)
            /\ \A i, j \in Lineage[k] : i \in Lineage[j] \/ j \in Lineage[i]
            /\ \E r \in Lineage[k] : Classes[r].parent = None

-----------------------------------------------------------------------------
(* An object is a class and the values of its identity attributes.         *)

Obj(k, values) == [klass |-> k, id |-> values]
Objects == {o \in [klass : Klasses, id : Seq(Nat)] : Len(o.id) = Len(Classes[o.klass].id)}

\* The parent of an object, the way set_resource_sync_pending() names it: an object
\* of the parent class with the first values of the child's identity.
HasParent(o) == Classes[o.klass].parent # None
Parent(o) ==
    LET k == Classes[o.klass].parent
    IN  Obj(k, SubSeq(o.id, 1, Len(Classes[k].id)))

\* The objects an object is under: the parent, the parent of that, ...
Ancestors(o) ==
    {Obj(k, SubSeq(o.id, 1, Len(Classes[k].id))) : k \in Lineage[o.klass] \ {o.klass}}

\* AciResourceBase.root: the first managed object of the DN.
RootOf(o) == CHOOSE r \in {o} \cup Ancestors(o) : ~HasParent(r)
=============================================================================
