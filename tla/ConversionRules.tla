--------------------------- MODULE ConversionRules ---------------------------
(***************************************************************************)
(* The resource maps of the converters: which objects of the APIC an AIM   *)
(* resource becomes, and which of its attributes each of them carries.     *)
(* Attributes that are converted one to one are the attribute "rest";      *)
(* the others are named.  How single values are spelled in the two models  *)
(* (booleans, port names, camel case) is left out.                         *)
(*                                                                         *)
(* "mo" is the schema of the DN.  Names like fvSubnet__epg tell apart      *)
(* schemas for which the APIC has one class; a converter tries the schemas *)
(* its class may have, so an object is found by its schema here.           *)
(***************************************************************************)
EXTENDS Naturals, Sequences

\* One object, if the attributes in "when" are set and those in "unless" are not;
\* "each": one object for every entry of the list.  An object that is neither monitored
\* nor pre-existing is always converted; "mon" and "pre" say if those are.
Rule(kind, mo, klass, attrs) ==
    [kind |-> kind, mo |-> mo, klass |-> klass, attrs |-> attrs, skip |-> {},
     when |-> {}, unless |-> {}, part |-> "", mon |-> TRUE, pre |-> FALSE]

\* default_converter: the object itself, without the attributes that are skipped
Main(mo, klass, skip) == [Rule("object", mo, klass, {"rest"}) EXCEPT !.skip = skip]
\* default_to_resource_strict: a related object with one attribute, empty or not
Strict(mo, klass, attr) == Rule("object", mo, klass, {attr})
\* ... skip_if_empty, or a converter that needs a value
Optional(mo, klass, attr) == [Rule("object", mo, klass, {attr}) EXCEPT !.when = {attr}]
\* child_list: an object for each entry
Each(mo, klass, attr) == Rule("each", mo, klass, {attr})
\* list_dict: an object for each entry that has this part
Items(mo, klass, attr, part) == [Rule("items", mo, klass, {attr}) EXCEPT !.part = part]
\* dn_decomposer: the attributes are the names in a DN, which is empty without all of them
Reference(mo, klass, attrs) == Rule("reference", mo, klass, attrs)
\* ... skip_if_empty
OptionalReference(mo, klass, attrs) == [Rule("object", mo, klass, attrs) EXCEPT !.when = attrs]
\* contract_rs: a relation that is a resource, all of it in the DN
Relation(mo, klass) == Rule("object", mo, klass, {})
\* to_resource_filter_container: an object that holds others
Container(mo, klass, attrs) == [Rule("container", mo, klass, {}) EXCEPT !.when = attrs]
\* Only for objects that AIM owns
Managed(rule) == [rule EXCEPT !.mon = FALSE]
\* Also below objects that exist before AIM
Shared(rule) == [rule EXCEPT !.pre = TRUE]

-----------------------------------------------------------------------------
(* Rules with a converter of their own                                     *)

\* fault_inst_to_resource: identifiers of the status and timestamps are not sent
Faults == {Main("faultInst", "AciFault", {"status_id", "last_update_timestamp", "lifecycle_status"})}

\* fv_rs_dom_att_converter: an fvRsDomAtt is read as a VMM domain if its target is one,
\* as a physical domain otherwise
DomainAttachments ==
    {Rule("domains", "fvRsDomAtt__vmm", "EndpointGroup", {"vmm_domains", "openstack_vmm_domain_names"}),
     Rule("domains", "fvRsDomAtt__phys", "EndpointGroup", {"physical_domains", "physical_domain_names"})}

\* fv_rs_path_att_converter: a path without encapsulation is not sent
StaticPaths ==
    {[Main("fvRsPathAtt", "EPGStaticPath", {"host"})
        EXCEPT !.attrs = {"rest", "encap"}, !.when = {"encap"}]}

\* qos_rs_ingress_dpp_pol, qos_rs_egress_dpp_pol, qos_ep_dscp_marking and qos_rs_req
QosRelations ==
    {Optional("qosRsIngressDppPol", "QosRequirement", "ingress_dpp_pol"),
     Optional("qosRsEgressDppPol", "QosRequirement", "egress_dpp_pol"),
     Optional("qosEpDscpMarking", "QosRequirement", "dscp"),
     Optional("fvRsQosRequirement", "EndpointGroup", "qos_name")}

\* fv_rs_master_epg_converter
ContractMasters == {Each("fvRsSecInherited", "EndpointGroup", "epg_contract_masters")}

\* l3ext_next_hop_converter
NextHops == {Each("ipNexthopP", "L3OutStaticRoute", "next_hop_list")}

\* The second address makes an interface a virtual port channel: both addresses, and the
\* secondary ones, are then under a member of their own.
BothAddresses == {"primary_addr_a", "primary_addr_b"}

\* l3ext_ip_converter
SecondaryAddresses ==
    {[Each("l3extIp", "L3OutInterface", "secondary_addr_a_list")
        EXCEPT !.when = {"primary_addr_a"}, !.unless = {"primary_addr_b"}],
     [Each("l3extIp__Member_A", "L3OutInterface", "secondary_addr_a_list") EXCEPT !.when = BothAddresses],
     [Each("l3extIp__Member_B", "L3OutInterface", "secondary_addr_b_list") EXCEPT !.when = BothAddresses]}

\* l3ext_member_converter
Members ==
    {[Strict("l3extMember_A", "L3OutInterface", "primary_addr_a") EXCEPT !.when = BothAddresses],
     [Strict("l3extMember_B", "L3OutInterface", "primary_addr_b") EXCEPT !.when = BothAddresses]}

\* bgp_extp_converter: the object stands for the flag
BgpProfiles == {Optional("bgpExtP", "L3Outside", "bgp_enable")}

\* subnet_converter: what is no subnet of a bridge domain is one of an endpoint group
Subnets == {Main("fvSubnet", "Subnet", {}), Main("fvSubnet__epg", "EPGSubnet", {})}

\* contract_converter: what is no subject of a contract is one of an out-of-band contract
FiltersAndGraphs ==
    {"in_filters", "out_filters", "bi_filters", "service_graph_name",
     "in_service_graph_name", "out_service_graph_name"}
Subjects ==
    {Main("vzSubj", "ContractSubject", FiltersAndGraphs),
     Main("vzSubj__tn", "OutOfBandContractSubject", FiltersAndGraphs)}

\* hostprot_rs_remoteipcont_converter
RemoteIpContainers == {Managed(Optional("hostprotRsRemoteIpContainer", "SecurityGroupRule", "tDn"))}

\* hostprot_remoteIp_converter: addresses of rules, or of a container
RemoteIps ==
    {Managed(Each("hostprotRemoteIp", "SecurityGroupRule", "remote_ips")),
     Each("hostprotRemoteIp", "SystemSecurityGroupRule", "remote_ips"),
     Managed(Main("hostprotRemoteIp__cont", "SecurityGroupRemoteIp", {}))}

Special ==
    Faults \cup DomainAttachments \cup StaticPaths \cup QosRelations \cup ContractMasters
    \cup NextHops \cup SecondaryAddresses \cup Members \cup BgpProfiles \cup Subnets
    \cup Subjects \cup RemoteIpContainers \cup RemoteIps

-----------------------------------------------------------------------------
(* The maps                                                                *)

Networks ==
    {Main("fvBD", "BridgeDomain", {"vrf_name", "l3out_names"}),
     Strict("fvRsCtx", "BridgeDomain", "vrf_name"),
     Each("fvRsBDToOut", "BridgeDomain", "l3out_names"),
     Main("fvTenant", "Tenant", {}), Main("fvCtx", "VRF", {}),
     Main("fvAp", "ApplicationProfile", {})}

\* qos_name is carried by fvRsQosRequirement, epg_contract_masters by fvRsSecInherited.
Groups ==
    {Main("fvAEPg", "EndpointGroup",
          {"bd_name", "provided_contract_names", "consumed_contract_names",
           "openstack_vmm_domain_names", "physical_domain_names", "physical_domains",
           "vmm_domains", "qos_name", "epg_contract_masters"}),
     Strict("fvRsBd", "EndpointGroup", "bd_name"),
     Each("fvRsProv", "EndpointGroup", "provided_contract_names"),
     Shared(Relation("fvRsProv__Ext", "ExternalNetworkProvidedContract")),
     Each("fvRsCons", "EndpointGroup", "consumed_contract_names"),
     Shared(Relation("fvRsCons__Ext", "ExternalNetworkConsumedContract"))}

Contracts ==
    {Main("vzFilter", "Filter", {}), Main("vzEntry", "FilterEntry", {}),
     Main("vzBrCP", "Contract", {}), Main("vzOOBBrCP", "OutOfBandContract", {})}

SubjectRelations ==
    {Each("vzRsSubjFiltAtt", "ContractSubject", "bi_filters"),
     Optional("vzRsSubjGraphAtt", "ContractSubject", "service_graph_name"),
     Each("vzRsFiltAtt__In", "ContractSubject", "in_filters"),
     Each("vzRsFiltAtt__Out", "ContractSubject", "out_filters"),
     Container("vzInTerm", "ContractSubject", {"in_filters", "in_service_graph_name"}),
     Container("vzOutTerm", "ContractSubject", {"out_filters", "out_service_graph_name"}),
     Optional("vzRsInTermGraphAtt", "ContractSubject", "in_service_graph_name"),
     Optional("vzRsOutTermGraphAtt", "ContractSubject", "out_service_graph_name")}

L3Outs ==
    {Main("l3extOut", "L3Outside", {"vrf_name", "l3_domain_dn", "bgp_enable"}),
     Strict("l3extRsEctx", "L3Outside", "vrf_name"),
     Strict("l3extRsL3DomAtt", "L3Outside", "l3_domain_dn"),
     Main("l3extLNodeP", "L3OutNodeProfile", {}), Main("l3extRsNodeL3OutAtt", "L3OutNode", {}),
     Main("ipRouteP", "L3OutStaticRoute", {"next_hop_list"}),
     Main("l3extLIfP", "L3OutInterfaceProfile", {})}

Interfaces ==
    {[Main("l3extRsPathL3OutAtt", "L3OutInterface",
           {"primary_addr_b", "secondary_addr_a_list", "secondary_addr_b_list", "host"})
        EXCEPT !.attrs = {"rest", "primary_addr_a"}],
     Main("bgpPeerP", "L3OutInterfaceBgpPeerP", {"asn"}),
     [Main("bgpAsP__Peer", "L3OutInterfaceBgpPeerP", {}) EXCEPT !.attrs = {"rest", "asn"}],
     Main("l3extInstP", "ExternalNetwork",
          {"nat_epg_dn", "provided_contract_names", "consumed_contract_names"}),
     Strict("l3extRsInstPToNatMappingEPg", "ExternalNetwork", "nat_epg_dn"),
     Main("l3extSubnet", "ExternalSubnet", {})}

SecurityGroups ==
    {Managed(Main("hostprotPol", "SecurityGroup", {})), Main("hostprotPol", "SystemSecurityGroup", {}),
     Managed(Main("hostprotSubj", "SecurityGroupSubject", {})),
     Main("hostprotSubj", "SystemSecurityGroupSubject", {}),
     Managed(Main("hostprotRule", "SecurityGroupRule", {"remote_ips", "remote_group_id", "tDn"})),
     Main("hostprotRule", "SystemSecurityGroupRule", {"remote_ips"}),
     Managed(Main("hostprotRemoteIpContainer", "SecurityGroupRemoteIpContainer", {}))}

\* name_alias and display_name of VMM policies are not sent.
DomainsAndInjected ==
    {Main("opflexODev", "OpflexDevice", {}),
     Main("vmmDomP", "VMMDomain", {"vlan_pool_name", "vlan_pool_type", "mcast_addr_pool_name"}),
     OptionalReference("infraRsVlanNs__vmm", "VMMDomain", {"vlan_pool_name", "vlan_pool_type"}),
     OptionalReference("vmmRsDomMcastAddrNs", "VMMDomain", {"mcast_addr_pool_name"}),
     Main("vmmProvP", "VMMPolicy", {"display_name"}), Main("physDomP", "PhysicalDomain", {}),
     Main("fabricPod", "Pod", {}), Main("fabricTopology", "Topology", {}),
     Main("vmmCtrlrP", "VMMController", {}), Main("vmmInjectedNs", "VmmInjectedNamespace", {}),
     Main("vmmInjectedDepl", "VmmInjectedDeployment", {}),
     Main("vmmInjectedReplSet", "VmmInjectedReplicaSet", {}),
     Main("vmmInjectedSvc", "VmmInjectedService", {"service_ports", "endpoints"}),
     Items("vmmInjectedSvcPort", "VmmInjectedService", "service_ports", ""),
     Items("vmmInjectedSvcEp", "VmmInjectedService", "endpoints", ""),
     Main("vmmInjectedHost", "VmmInjectedHost", {}),
     Main("vmmInjectedContGrp", "VmmInjectedContGroup", {})}

QosAndSpan ==
    {Main("infraInfra", "Infra", {}), Main("netflowVmmExporterPol", "NetflowVMMExporterPol", {}),
     Main("qosRequirement", "QosRequirement", {"dscp", "ingress_dpp_pol", "egress_dpp_pol"}),
     Main("qosDppPol", "QosDppPol", {}),
     Main("vmmVSwitchPolicyCont", "VmmVswitchPolicyGroup", {}),
     Main("vmmRsVswitchExporterPol", "VmmRelationToExporterPol", {}),
     Main("spanVSrcGrp", "SpanVsourceGroup", {}), Main("spanVSrc", "SpanVsource", {"src_paths"}),
     Main("spanVDestGrp", "SpanVdestGroup", {}), Main("spanVDest", "SpanVdest", {}),
     Main("spanVEpgSummary", "SpanVepgSummary", {}),
     Each("spanRsSrcToVPort", "SpanVsource", "src_paths"), Main("spanSpanLbl", "SpanSpanlbl", {})}

AccessGroups ==
    {Main("infraAccBndlGrp", "InfraAccBundleGroup", {"span_vsource_group_names", "span_vdest_group_names"}),
     Main("infraAccPortGrp", "InfraAccPortGroup", {"span_vsource_group_names", "span_vdest_group_names"}),
     Managed(Shared(Each("infraRsSpanVSrcGrp", "InfraAccBundleGroup", "span_vsource_group_names"))),
     Managed(Shared(Each("infraRsSpanVSrcGrp__ap", "InfraAccPortGroup", "span_vsource_group_names"))),
     Managed(Shared(Each("infraRsSpanVDestGrp", "InfraAccBundleGroup", "span_vdest_group_names"))),
     Managed(Shared(Each("infraRsSpanVDestGrp__ap", "InfraAccPortGroup", "span_vdest_group_names")))}

Devices ==
    {Main("vnsLDevVip", "DeviceCluster",
          {"physical_domain_name", "encap", "devices", "vmm_domain_name", "vmm_domain_type"}),
     Reference("vnsRsALDevToPhysDomP", "DeviceCluster", {"physical_domain_name"}),
     OptionalReference("vnsRsALDevToDomP", "DeviceCluster", {"vmm_domain_type", "vmm_domain_name"}),
     Main("vnsLIf", "DeviceClusterInterface", {"concrete_interfaces"}),
     Each("vnsRsCIfAttN", "DeviceClusterInterface", "concrete_interfaces"),
     Main("vnsCDev", "ConcreteDevice", {}),
     Main("vnsCIf", "ConcreteDeviceInterface", {"path", "host"}),
     Strict("vnsRsCIfPathAtt", "ConcreteDeviceInterface", "path")}

ServiceGraphs ==
    {Main("vnsAbsGraph", "ServiceGraph", {"linear_chain_nodes"}),
     Main("vnsAbsNode", "ServiceGraphNode",
          {"connectors", "device_cluster_name", "device_cluster_tenant_name"}),
     Each("vnsAbsFuncConn", "ServiceGraphNode", "connectors"),
     Reference("vnsRsNodeToLDev", "ServiceGraphNode", {"device_cluster_tenant_name", "device_cluster_name"}),
     Main("vnsAbsConnection", "ServiceGraphConnection", {"connector_dns"}),
     Each("vnsRsAbsConnectionConns", "ServiceGraphConnection", "connector_dns"),
     Main("vnsSvcRedirectPol", "ServiceRedirectPolicy",
          {"destinations", "monitoring_policy_tenant_name", "monitoring_policy_name"}),
     Items("vnsRedirectDest", "ServiceRedirectPolicy", "destinations", ""),
     OptionalReference("vnsRsIPSLAMonitoringPol", "ServiceRedirectPolicy",
                       {"monitoring_policy_tenant_name", "monitoring_policy_name"}),
     Items("vnsRsRedirectHealthGroup", "ServiceRedirectPolicy", "destinations", "redirect_health_group_dn")}

DeviceContexts ==
    {Main("vnsLDevCtx", "DeviceClusterContext",
          {"device_cluster_name", "device_cluster_tenant_name", "service_redirect_policy_name",
           "service_redirect_policy_tenant_name", "bridge_domain_name", "bridge_domain_tenant_name"}),
     Reference("vnsRsLDevCtxToLDev", "DeviceClusterContext",
               {"device_cluster_tenant_name", "device_cluster_name"}),
     Main("vnsLIfCtx", "DeviceClusterInterfaceContext",
          {"device_cluster_interface_dn", "service_redirect_policy_dn", "bridge_domain_dn"}),
     Strict("vnsRsLIfCtxToSvcRedirectPol", "DeviceClusterInterfaceContext", "service_redirect_policy_dn"),
     Strict("vnsRsLIfCtxToBD", "DeviceClusterInterfaceContext", "bridge_domain_dn"),
     Strict("vnsRsLIfCtxToLIf", "DeviceClusterInterfaceContext", "device_cluster_interface_dn"),
     Main("fvIPSLAMonitoringPol", "ServiceRedirectMonitoringPolicy", {}),
     Main("vnsRedirectHealthGroup", "ServiceRedirectHealthGroup", {})}

\* The terminals of a service graph: objects that carry nothing
Terminals ==
    {Rule("terminal", mo, "ServiceGraph", {}) :
        mo \in {"vnsAbsTermNodeCon", "vnsAbsTermConn__Con", "vnsInTerm__Con", "vnsOutTerm__Con",
                "vnsAbsTermNodeProv", "vnsAbsTermConn__Prov", "vnsInTerm__Prov", "vnsOutTerm__Prov"}}

\* resource_map and, by "klass", reverse_resource_map
Rules ==
    Networks \cup Groups \cup Contracts \cup SubjectRelations \cup L3Outs \cup Interfaces
    \cup SecurityGroups \cup DomainsAndInjected \cup QosAndSpan \cup AccessGroups
    \cup Devices \cup ServiceGraphs \cup DeviceContexts \cup Terminals \cup Special

RulesOf(klass) == {r \in Rules : r.klass = klass}
Converted == {r.klass : r \in Rules}
=============================================================================
