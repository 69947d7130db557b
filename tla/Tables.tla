------------------------------- MODULE Tables -------------------------------
(***************************************************************************)
(* The database tables of the AIM resources (aim/db/models.py,             *)
(* aim/db/service_graph_model.py, aim/db/infra_model.py): of each table    *)
(* the columns of its unique constraint, and how from_attr() and to_attr() *)
(* keep the attributes that are lists in association tables.               *)
(***************************************************************************)
EXTENDS TLC

Table(k, unique, relations) == k :> [unique |-> unique, relations |-> relations]
Plain(k, unique) == Table(k, unique, {})

-----------------------------------------------------------------------------
(* How a list is stored.                                                   *)

Relation(style, lists) ==
    [style |-> style, lists |-> lists, names |-> {}, columns |-> {}, checked |-> FALSE, foreign |-> {}]

\* One association row for each entry; a list that is given replaces the rows of its
\* attribute.  Attributes of one table are told apart by a column (provides, direction).
Lists(attrs) == Relation("lists", attrs)
\* The same, and entries without a required key are skipped.
CheckedLists(attrs) == [Lists(attrs) EXCEPT !.checked = TRUE]
\* Two attributes for one table: all its rows, and the names of the rows that are not
\* of a foreign type.
Domains(all, names, foreign) ==
    [Relation("domains", {all}) EXCEPT !.names = {names}, !.foreign = foreign]
\* Only the differences to the rows that were read are written.  The second
\* attribute is a column of the main row.
Difference(list, column) == [Relation("difference", {list}) EXCEPT !.columns = {column}]
\* At most one row.
Single(attr) == Relation("single", {attr})
\* The list is replaced only when the column is given too.
Secondary(list, column) ==
    [Relation("secondary", {list}) EXCEPT !.columns = {column}, !.checked = TRUE]
\* The rows keep the position in the list.
Chain(attr) == [Relation("chain", {attr}) EXCEPT !.checked = TRUE]

-----------------------------------------------------------------------------
(* What the classes declare.                                               *)

TenantsAndBridgeDomains ==
    Plain("Tenant", <<"name">>)
    @@ Plain("Infra", <<"name">>)
    @@ Table("BridgeDomain", <<"tenant_name", "name">>,
            {Lists({"l3out_names"})})
    @@ Plain("NetflowVMMExporterPol", <<"name">>)
    @@ Plain("VmmVswitchPolicyGroup", <<"domain_type", "domain_name">>)
    @@ Plain("VmmRelationToExporterPol", <<"domain_type", "domain_name", "netflow_path">>)
    @@ Plain("Subnet", <<"tenant_name", "bd_name", "gw_ip_mask">>)
    @@ Plain("EPGSubnet", <<"tenant_name", "app_profile_name", "epg_name", "gw_ip_mask">>)

NetworksAndDomains ==
    Plain("VRF", <<"tenant_name", "name">>)
    @@ Plain("ApplicationProfile", <<"tenant_name", "name">>)
    @@ Plain("VMMPolicy", <<"type">>)
    @@ Plain("VMMDomain", <<"type", "name">>)
    @@ Plain("PhysicalDomain", <<"name">>)

StaticPaths ==
    Plain("EPGStaticPath", <<"tenant_name", "app_profile_name", "epg_name", "path">>)

EndpointGroups ==
    Table("EndpointGroup", <<"tenant_name", "app_profile_name", "name">>,
            {Lists({"provided_contract_names", "consumed_contract_names"}),
             Domains("vmm_domains", "openstack_vmm_domain_names", {"other"}),
             Domains("physical_domains", "physical_domain_names", {}),
             CheckedLists({"epg_contract_masters"})})
    @@ Plain("Filter", <<"tenant_name", "name">>)
    @@ Plain("FilterEntry", <<"tenant_name", "filter_name", "name">>)

ContractTables ==
    Plain("Contract", <<"tenant_name", "name">>)
    @@ Plain("OutOfBandContract", <<"tenant_name", "name">>)
    @@ Table("ContractSubject", <<"tenant_name", "contract_name", "name">>,
            {Lists({"in_filters", "out_filters", "bi_filters"})})

OutOfBandSubjects ==
    Table("OutOfBandContractSubject", <<"tenant_name", "contract_name", "name">>,
            {Lists({"in_filters", "out_filters", "bi_filters"})})

L3Outs ==
    Plain("L3Outside", <<"tenant_name", "name">>)
    @@ Plain("L3OutNodeProfile", <<"tenant_name", "l3out_name", "name">>)
    @@ Plain("L3OutNode", <<"tenant_name", "l3out_name", "node_profile_name", "node_path">>)

L3OutInterfaces ==
    Table("L3OutStaticRoute", <<"tenant_name", "l3out_name", "node_profile_name", "node_path", "cidr">>,
            {CheckedLists({"next_hop_list"})})
    @@ Plain("L3OutInterfaceProfile", <<"tenant_name", "l3out_name", "node_profile_name", "name">>)
    @@ Table("L3OutInterface", <<"tenant_name", "l3out_name", "node_profile_name", "interface_profile_name", "interface_path">>,
            {Secondary("secondary_addr_a_list", "primary_addr_a"),
             Secondary("secondary_addr_b_list", "primary_addr_b")})

ExternalNetworks ==
    Plain("ExternalNetworkProvidedContract", <<>>)
    @@ Plain("ExternalNetworkConsumedContract", <<>>)
    @@ Plain("ExternalNetwork", <<"tenant_name", "l3out_name", "name">>)
    @@ Plain("ExternalSubnet", <<"tenant_name", "l3out_name", "external_network_name", "cidr">>)
    @@ Plain("SecurityGroup", <<"tenant_name", "name">>)
    @@ Plain("SecurityGroupSubject", <<"tenant_name", "security_group_name", "name">>)

SecurityRules ==
    Table("SecurityGroupRule", <<"tenant_name", "security_group_name", "security_group_subject_name", "name">>,
            {Difference("remote_ips", "direction"), Single("tDn")})
    @@ Plain("SecurityGroupRemoteIp", <<"tenant_name", "security_group_name", "addr">>)
    @@ Plain("SecurityGroupRemoteIpContainer", <<"tenant_name", "security_group_name">>)
    @@ Plain("Pod", <<"name">>)
    @@ Plain("Topology", <<"name">>)
    @@ Plain("VMMController", <<"domain_type", "domain_name", "name">>)

InjectedServices ==
    Plain("VmmInjectedNamespace", <<"domain_type", "domain_name", "controller_name", "name">>)
    @@ Plain("VmmInjectedDeployment", <<"domain_type", "domain_name", "controller_name", "namespace_name", "name">>)
    @@ Plain("VmmInjectedReplicaSet", <<"domain_type", "domain_name", "controller_name", "namespace_name", "name">>)
    @@ Table("VmmInjectedService", <<"domain_type", "domain_name", "controller_name", "namespace_name", "name">>,
            {CheckedLists({"service_ports", "endpoints"})})

HostsPeersAndQos ==
    Plain("VmmInjectedHost", <<"domain_type", "domain_name", "controller_name", "name">>)
    @@ Plain("VmmInjectedContGroup", <<"domain_type", "domain_name", "controller_name", "namespace_name">>)
    @@ Plain("L3OutInterfaceBgpPeerP", <<"tenant_name", "l3out_name", "node_profile_name", "interface_profile_name", "interface_path", "addr">>)
    @@ Table("QosRequirement", <<"tenant_name", "name">>,
            {Single("dscp")})
    @@ Plain("QosDppPol", <<"tenant_name", "name">>)

SpanTables ==
    Plain("SpanVsourceGroup", <<"name">>)
    @@ Table("SpanVsource", <<"vsg_name", "name">>,
            {Lists({"src_paths"})})
    @@ Plain("SpanVdestGroup", <<"name">>)
    @@ Plain("SpanVdest", <<"vdg_name", "name">>)
    @@ Plain("SpanVepgSummary", <<"vdg_name", "vd_name">>)

AccessGroups ==
    Table("InfraAccBundleGroup", <<"name">>,
            {Lists({"span_vsource_group_names", "span_vdest_group_names"})})
    @@ Table("InfraAccPortGroup", <<"name">>,
            {Lists({"span_vsource_group_names", "span_vdest_group_names"})})
    @@ Plain("SpanSpanlbl", <<"vsg_name", "name">>)
    @@ Plain("SystemSecurityGroup", <<"tenant_name", "name">>)
    @@ Plain("SystemSecurityGroupSubject", <<"tenant_name", "security_group_name", "name">>)

SystemSecurityRules ==
    Table("SystemSecurityGroupRule", <<"tenant_name", "security_group_name", "security_group_subject_name", "name">>,
            {Difference("remote_ips", "direction")})

DeviceTables ==
    Table("DeviceCluster", <<"tenant_name", "name">>,
            {Lists({"devices"})})
    @@ Table("DeviceClusterInterface", <<"tenant_name", "device_cluster_name", "name">>,
            {Lists({"concrete_interfaces"})})
    @@ Plain("ConcreteDevice", <<"tenant_name", "device_cluster_name", "name">>)
    @@ Plain("ConcreteDeviceInterface", <<"tenant_name", "device_cluster_name", "device_name", "name">>)

GraphElements ==
    Table("ServiceGraphConnection", <<"tenant_name", "service_graph_name", "name">>,
            {Lists({"connector_dns"})})
    @@ Table("ServiceGraphNode", <<"tenant_name", "service_graph_name", "name">>,
            {Lists({"connectors"})})

GraphsAndPolicies ==
    Table("ServiceGraph", <<"tenant_name", "name">>,
            {Chain("linear_chain_nodes")})
    @@ Plain("ServiceRedirectHealthGroup", <<>>)
    @@ Plain("ServiceRedirectMonitoringPolicy", <<>>)
    @@ Table("ServiceRedirectPolicy", <<"tenant_name", "name">>,
            {CheckedLists({"destinations"})})

ContextTables ==
    Plain("DeviceClusterContext", <<"tenant_name", "contract_name", "service_graph_name", "node_name">>)
    @@ Plain("DeviceClusterInterfaceContext", <<"tenant_name", "contract_name", "service_graph_name", "node_name", "connector_name">>)

OpflexTable ==
    Plain("OpflexDevice", <<"pod_id", "node_id", "bridge_interface", "dev_id">>)

-----------------------------------------------------------------------------
(* What the migrations create, where the classes do not declare it.        *)

MigratedContGroups ==
    Plain("VmmInjectedContGroup",
          <<"domain_type", "domain_name", "controller_name", "namespace_name", "name">>)

MigratedRedirects ==
    Plain("ServiceRedirectHealthGroup", <<"tenant_name", "name">>)
    @@ Plain("ServiceRedirectMonitoringPolicy", <<"tenant_name", "name">>)

MigratedContracts ==
    Plain("ExternalNetworkProvidedContract",
          <<"tenant_name", "l3out_name", "ext_net_name", "name">>)
    @@ Plain("ExternalNetworkConsumedContract",
             <<"tenant_name", "l3out_name", "ext_net_name", "name">>)

\* SqlAlchemyStore.db_model_map, over the tables as they are deployed
DbModelMap ==
    MigratedContGroups @@ MigratedRedirects @@ MigratedContracts
    @@ TenantsAndBridgeDomains @@ NetworksAndDomains @@ StaticPaths @@ EndpointGroups
    @@ ContractTables @@ OutOfBandSubjects @@ L3Outs @@ L3OutInterfaces
    @@ ExternalNetworks @@ SecurityRules @@ InjectedServices @@ HostsPeersAndQos
    @@ SpanTables @@ AccessGroups @@ SystemSecurityRules @@ DeviceTables
    @@ GraphElements @@ GraphsAndPolicies @@ ContextTables @@ OpflexTable
=============================================================================
