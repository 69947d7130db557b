----------------------------- MODULE NatStrategy -----------------------------
(***************************************************************************)
(* The NAT strategies of aim/aim_lib/nat_strategy.py: what they create in  *)
(* AIM for L3Outs, their external networks and the VRFs connected to them, *)
(* and what they leave behind.  Every operation is one transaction of the  *)
(* store; one that raises an exception is rolled back and is no step.      *)
(*                                                                         *)
(* Names are sequences of words, so that the names that the code builds    *)
(* ('EXT-%s', '%s-%s') are concatenations.  An L3Out, a VRF or a bridge    *)
(* domain is identified by its tenant and its name.                        *)
(***************************************************************************)
EXTENDS FiniteSets, Sequences

CONSTANTS L3Outs,     \* L3Outs that callers use
          Existing,   \* those of them that are monitored, with the name of their VRF
          Nets,       \* Nets[l]: names of the external networks of an L3Out
          Vrfs,       \* Vrfs[l]: VRFs of users that callers connect to an L3Out
          Bds,        \* bridge domains of the users, with the name of their VRF
          Cidrs,
          Contracts,  \* Contracts[l]: contracts that callers give for its networks
          Gateways,   \* Gateways[l]: gateways of subnets for an L3Out
          AppProfile, \* app_profile_name of the strategy
          EpgName     \* EpgName[l]: the epg_name that callers give for an L3Out

AllVrfs == UNION {Vrfs[l] : l \in L3Outs}
AllNets == UNION {Nets[l] : l \in L3Outs}

ASSUME ExistingAssumption == DOMAIN Existing \subseteq L3Outs

VARIABLES strategy, \* which of the classes is used: "nonat" or, for the two others, "nat"
          l3outs, \* L3Outside objects: their vrf_name and whether they are monitored
          nets,   \* ExternalNetwork objects <<l3out, name>>: whether they are monitored
          subs,   \* ExternalSubnet objects <<l3out, network, cidr>>
          refs,   \* contracts of networks <<"prov" or "cons", l3out, network, contract>>
          nat,    \* the other objects that the strategies create
          vrfs,   \* VRF objects
          bds,    \* l3out_names of the users' bridge domains
          clones  \* rows of aim_lib_clone_l3out: clone to source

vars == <<strategy, l3outs, nets, subs, refs, nat, vrfs, bds, clones>>

Tenant(x) == x[1]
Name(x) == x[2]
Ext(name) == <<"EXT">> \o name

Put(f, x, v) == [y \in DOMAIN f \cup {x} |-> IF y = x THEN v ELSE f[y]]
Drop(f, S) == [x \in DOMAIN f \ S |-> f[x]]

-----------------------------------------------------------------------------
(* The objects of an L3Out.                                                *)

NatVrf(l) == <<Tenant(l), Ext(Name(l))>>
NatContract(l) == Ext(EpgName[l])
NatBd(l) == <<"bd", Tenant(l), Ext(EpgName[l])>>
NatAp(l) == <<"ap", Tenant(l), AppProfile>>
NatEpg(l) == <<"epg", Tenant(l), AppProfile, Ext(EpgName[l])>>

\* _get_nat_objects
NatObjects(l) ==
    {<<"filter", Tenant(l), Ext(Name(l))>>, <<"entry", Tenant(l), Ext(Name(l))>>,
     <<"contract", Tenant(l), NatContract(l)>>, <<"subject", Tenant(l), NatContract(l)>>,
     NatBd(l), NatAp(l), NatEpg(l)}

\* Fault for the mutants: the application profile goes with the EPG.
WithoutNatEpgAlone(l, objects) ==
    {o \in objects \ NatObjects(l) : ~(o[1] = "subnet" /\ o[2] = NatBd(l))}

\* Fault for the mutants: the subnets of the bridge domain are left.
WithoutNatEpgOnly(l, objects) == objects \ (NatObjects(l) \ {NatAp(l)})

\* _delete_nat_epg: the subnets of the bridge domain and the objects, the profile
\* only when no EPG is left in it.
WithoutNatEpg(l, objects) ==
    LET left == {o \in objects \ (NatObjects(l) \ {NatAp(l)}) :
                    ~(o[1] = "subnet" /\ o[2] = NatBd(l))}
    IN  IF \E o \in left : o[1] = "epg" /\ o[2] = Tenant(l) /\ o[3] = AppProfile
        THEN left ELSE left \ {NatAp(l)}

\* _generate_l3out_name, _make_l3out_clone
Clone(l, v) == <<Tenant(v), Name(l) \o Name(v)>>

\* Callers keep the names apart that the code derives from theirs: L3Outs of one
\* tenant have distinct names and distinct EPGs, users' VRFs and L3Outs are not named
\* like those of the strategies, and dashes in names do not make two clones one.
ASSUME NamesAssumption ==
    /\ \A v \in AllVrfs : v = <<Tenant(v), Name(v)>>
    /\ \A l \in L3Outs : NatVrf(l) \notin AllVrfs
    /\ \A l, m \in L3Outs : l # m => NatVrf(l) # NatVrf(m) /\ NatBd(l) # NatBd(m)
    /\ \A l \in L3Outs, v \in AllVrfs : Clone(l, v) \notin L3Outs
    /\ \A l, m \in L3Outs, v, w \in AllVrfs : Clone(l, v) = Clone(m, w) => l = m /\ v = w

\* _vrf_by_name: the VRF of the tenant hides that of tenant common.
VrfByName(name, t) ==
    IF <<t, name>> \in vrfs THEN {<<t, name>>} ELSE vrfs \cap {<<"common", name>>}

-----------------------------------------------------------------------------
(* Parts of the operations.  They take and return the tables that they     *)
(* change, as records.                                                     *)

Tables == [l3outs |-> l3outs, nets |-> nets, subs |-> subs, refs |-> refs,
           clones |-> clones]

SubsOf(n, d) == {s \in d.subs : <<s[1], s[2]>> = n}
RefsOf(n, d) == {r \in d.refs : <<r[2], r[3]>> = n}
NatRefs(n, l) == {<<kind, n[1], n[2], NatContract(l)>> : kind \in {"prov", "cons"}}
UserRefs(n, prov, cons) ==
    {<<"prov", n[1], n[2], c>> : c \in prov} \cup {<<"cons", n[1], n[2], c>> : c \in cons}

\* _manage_external_subnets
ManageSubnets(n, cidrs, d) ==
    [d EXCEPT !.subs = (@ \ SubsOf(n, d)) \cup {<<n[1], n[2], c>> : c \in cidrs}]

\* _update_external_network_contracts
UpdateContracts(n, new, d) == [d EXCEPT !.refs = (@ \ RefsOf(n, d)) \cup new]

\* _delete_ext_net of some networks.  "cidrs" is {} for None, which means all of
\* them; l is the L3Out that the caller's EPG name belongs to.
DeleteExtNets(N, l, given, cidrs, d) ==
    LET here == N \cap DOMAIN d.nets
        own  == {n \in here : ~d.nets[n]}
        gone(s) == <<s[1], s[2]>> \in here /\ (cidrs = {} \/ s[3] \in cidrs)
        cut(r)  == \/ <<r[2], r[3]>> \in own
                   \/ <<r[2], r[3]>> \in here /\ r[4] \in given \cup {NatContract(l)}
    IN  [d EXCEPT !.nets = Drop(@, own), !.subs = {s \in @ : ~gone(s)},
                  !.refs = {r \in @ : ~cut(r)}]

\* _delete_unused_l3out of clones; the rows in aim_lib_clone_l3out go with them
\* (ON DELETE CASCADE).
DeleteUnused(cs, d) ==
    LET idle == {c \in cs \cap DOMAIN d.l3outs : \A n \in DOMAIN d.nets : n[1] # c}
    IN  [d EXCEPT !.l3outs = Drop(@, idle), !.clones = Drop(@, idle)]

ClonesOf(l, d) == {c \in DOMAIN d.clones : d.clones[c] = l}

\* Fault for the mutants: the clones of the L3Out are forgotten.
DeleteNetworksHere(l, ns, given, cidrs, d) ==
    DeleteExtNets({<<l, n>> : n \in ns}, l, given, cidrs, d)

\* delete_external_network of the three strategies, for the networks of an L3Out
\* with these names: in the clones first, which are removed when they have no
\* networks any more.  One network after the other gives the same.  (What NoNat
\* does to the bridge domains is in BdsAfterDelete.)
DeleteNetworks(l, ns, given, cidrs, d) ==
    LET found == {n \in ns : <<l, n>> \in DOMAIN d.nets}
        cs    == IF strategy = "nonat" \/ found = {} THEN {} ELSE ClonesOf(l, d)
    IN  DeleteExtNets({<<l, n>> : n \in found}, l, given, cidrs,
            DeleteUnused(cs,
                DeleteExtNets({<<c, n>> : c \in cs, n \in found}, l, given, cidrs, d)))

\* _get_bds_in_vrf_for_l3out
BdsInVrf(v, l) ==
    IF Tenant(v) = "common" /\ Tenant(l) = "common"
    THEN {b \in DOMAIN bds : Bds[b] = Name(v) /\ <<Tenant(b), Name(v)>> \notin vrfs}
    ELSE IF Tenant(v) \in {"common", Tenant(l)}
    THEN {b \in DOMAIN bds : Tenant(b) = Tenant(l) /\ Bds[b] = Name(v)}
    ELSE {}

\* _set_bd_l3out, _unset_bd_l3out
SetBds(S, l) == [b \in DOMAIN bds |-> IF b \in S THEN bds[b] \cup {Name(l)} ELSE bds[b]]
UnsetBds(S, l) == [b \in DOMAIN bds |-> IF b \in S THEN bds[b] \ {Name(l)} ELSE bds[b]]

\* _disconnect_vrf_from_l3out, by delete_external_network of NoNatStrategy
BdsAfterDelete(l, isNet) ==
    IF strategy = "nonat" /\ isNet
    THEN UnsetBds(UNION {BdsInVrf(v, l) : v \in VrfByName(l3outs[l].vrf, Tenant(l))}, l)
    ELSE bds

\* read_vrfs of the strategies with shadows, for the networks of l: the VRFs that
\* the clones name, in the tenants of the clones.
ReadVrfs(l) == vrfs \cap {<<Tenant(c), l3outs[c].vrf>> : c \in ClonesOf(l, Tables)}

Store(d) == /\ l3outs' = d.l3outs /\ nets' = d.nets /\ subs' = d.subs
            /\ refs' = d.refs /\ clones' = d.clones

-----------------------------------------------------------------------------
(* Operations.                                                             *)

\* create_l3outside
CreateL3out(l) ==
    LET v == NatVrf(l)
    IN  /\ nat' = nat \cup {<<"tenant", Tenant(l)>>} \cup NatObjects(l)
        /\ IF l \in DOMAIN l3outs THEN UNCHANGED <<l3outs, vrfs>>
           ELSE /\ vrfs' = vrfs \cup {v}
                /\ l3outs' = Put(l3outs, l, [vrf |-> Name(v), monitored |-> FALSE])
        /\ UNCHANGED <<nets, subs, refs, bds, clones>>

\* delete_l3outside.  A source of clones cannot be deleted (fk_clone_src_l3out).
DeleteL3out(l) ==
    LET d == DeleteNetworks(l, AllNets, {}, {}, Tables)
    IN  /\ l \in DOMAIN l3outs
        /\ l3outs[l].monitored \/ ClonesOf(l, d) = {}
        /\ Store(IF l3outs[l].monitored THEN d
                 ELSE [d EXCEPT !.l3outs = Drop(@, {l})])
        /\ nat' = WithoutNatEpg(l, nat)
        /\ vrfs' = vrfs \ {NatVrf(l)}
        /\ bds' = BdsAfterDelete(l, \E n \in DOMAIN nets : n[1] = l)

\* create_subnet, delete_subnet; create_epg_subnet, delete_epg_subnet
CreateSubnet(l, gw) ==
    /\ l \in DOMAIN l3outs
    /\ \E parent \in {<<"subnet", NatBd(l)>>, <<"epgsubnet", NatEpg(l)>>} :
          nat' = nat \cup {Append(parent, gw)}
    /\ UNCHANGED <<l3outs, nets, subs, refs, vrfs, bds, clones>>

DeleteSubnet(l, gw) ==
    /\ l \in DOMAIN l3outs
    /\ \E parent \in {<<"subnet", NatBd(l)>>, <<"epgsubnet", NatEpg(l)>>} :
          nat' = nat \ {Append(parent, gw)}
    /\ UNCHANGED <<l3outs, nets, subs, refs, vrfs, bds, clones>>

\* create_external_network
CreateExternalNetwork(l, n, given) ==
    /\ l \in DOMAIN l3outs
    /\ nets' = IF <<l, n>> \in DOMAIN nets THEN nets ELSE Put(nets, <<l, n>>, FALSE)
    /\ refs' = refs \cup NatRefs(<<l, n>>, l) \cup UserRefs(<<l, n>>, given, given)
    /\ UNCHANGED <<l3outs, subs, nat, vrfs, bds, clones>>

\* delete_external_network.  Callers name the CIDRs of monitored networks only,
\* which are left in place.
DeleteExternalNetwork(l, n, given, cidrs) ==
    /\ <<l, n>> \in DOMAIN nets /\ l \in DOMAIN l3outs
    /\ cidrs = {} \/ nets[<<l, n>>]
    /\ Store(DeleteNetworks(l, {n}, given, cidrs, Tables))
    /\ bds' = BdsAfterDelete(l, TRUE)
    /\ UNCHANGED <<nat, vrfs>>

\* Fault for the mutants: the clones keep their subnets.
UpdateCidrsHere(l, n, cidrs) ==
    /\ <<l, n>> \in DOMAIN nets
    /\ subs' = ManageSubnets(<<l, n>>, cidrs, Tables).subs
    /\ UNCHANGED <<l3outs, nets, refs, nat, vrfs, bds, clones>>

\* update_external_cidrs: in the clones of the L3Out as well, whether or not they
\* have the network.
UpdateCidrs(l, n, cidrs) ==
    LET where == {l} \cup (IF strategy = "nonat" THEN {} ELSE ClonesOf(l, Tables))
    IN  /\ <<l, n>> \in DOMAIN nets
        /\ subs' = {s \in subs : ~(s[1] \in where /\ s[2] = n)}
                   \cup {<<x, n, c>> : x \in where, c \in cidrs}
        /\ UNCHANGED <<l3outs, nets, refs, nat, vrfs, bds, clones>>

\* connect_vrf of NoNatStrategy
ConnectNoNat(l, n, v, given) ==
    /\ strategy = "nonat"
    /\ <<l, n>> \in DOMAIN nets
    /\ Tenant(v) \in {Tenant(l), "common"}
    /\ VrfByName(l3outs[l].vrf, Tenant(l)) = {v}
    /\ bds' = SetBds(BdsInVrf(v, l), l)
    /\ Store(UpdateContracts(<<l, n>>,
                             UserRefs(<<l, n>>, given, given) \cup NatRefs(<<l, n>>, l),
                             Tables))
    /\ UNCHANGED <<nat, vrfs>>

\* disconnect_vrf of NoNatStrategy: also when the VRF of the L3Out is gone.
DisconnectNoNat(l, n, v) ==
    /\ strategy = "nonat"
    /\ <<l, n>> \in DOMAIN nets
    /\ VrfByName(l3outs[l].vrf, Tenant(l)) \subseteq {v}
    /\ bds' = UnsetBds(BdsInVrf(v, l), l)
    /\ Store(UpdateContracts(<<l, n>>, NatRefs(<<l, n>>, l), Tables))
    /\ UNCHANGED <<nat, vrfs>>

\* set_bd_l3out, unset_bd_l3out
ChangeBd(l, b, add) ==
    /\ strategy = "nonat"
    /\ bds' = IF add THEN SetBds({b}, l) ELSE UnsetBds({b}, l)
    /\ UNCHANGED <<l3outs, nets, subs, refs, nat, vrfs, clones>>

\* connect_vrf of the other strategies: _create_shadow
CreateShadow(l, n, v, given) ==
    LET c == Clone(l, v)
        d == UpdateContracts(<<c, n>>, UserRefs(<<c, n>>, given, given), Tables)
        cidrs == {s[3] : s \in SubsOf(<<l, n>>, d)}
    IN  /\ strategy # "nonat"
        /\ <<l, n>> \in DOMAIN nets
        /\ Store([ManageSubnets(<<c, n>>, cidrs, d) EXCEPT
                    !.l3outs = Put(@, c, [vrf |-> Name(v), monitored |-> FALSE]),
                    !.nets = Put(@, <<c, n>>, FALSE),
                    !.clones = IF c \in DOMAIN @ THEN @ ELSE Put(@, c, l)])
        /\ UNCHANGED <<nat, vrfs, bds>>

\* disconnect_vrf of the other strategies: _delete_shadow
DeleteShadow(l, n, v) ==
    LET c == Clone(l, v)
    IN  /\ strategy # "nonat"
        /\ l \in DOMAIN l3outs
        /\ Store(DeleteUnused({c}, DeleteExtNets({<<c, n>>}, l, {}, {}, Tables)))
        /\ UNCHANGED <<nat, vrfs, bds>>

\* A user creates or deletes a VRF, which may hide one of tenant common.
ChangeVrf(v) ==
    /\ vrfs' = IF v \in vrfs THEN vrfs \ {v} ELSE vrfs \cup {v}
    /\ UNCHANGED <<l3outs, nets, subs, refs, nat, bds, clones>>

Init ==
    /\ strategy \in {"nonat", "nat"}
    /\ l3outs = [l \in DOMAIN Existing |-> [vrf |-> Existing[l], monitored |-> TRUE]]
    /\ nets \in {[n \in S |-> TRUE] : S \in SUBSET {x \in (DOMAIN Existing) \X AllNets : x[2] \in Nets[x[1]]}}
    /\ subs = {} /\ refs = {} /\ nat = {} /\ vrfs = AllVrfs
    /\ bds = [b \in DOMAIN Bds |-> {}] /\ clones = <<>>

Operation ==
    \/ \E l \in L3Outs : CreateL3out(l) \/ DeleteL3out(l)
    \/ \E l \in L3Outs : \E gw \in Gateways[l] : CreateSubnet(l, gw) \/ DeleteSubnet(l, gw)
    \/ \E l \in L3Outs : \E n \in Nets[l], given \in SUBSET Contracts[l] :
          \/ CreateExternalNetwork(l, n, given)
          \/ \E cidrs \in SUBSET Cidrs : DeleteExternalNetwork(l, n, given, cidrs)
          \/ \E v \in Vrfs[l] : ConnectNoNat(l, n, v, given) \/ CreateShadow(l, n, v, given)
    \/ \E l \in L3Outs : \E n \in Nets[l], cidrs \in SUBSET Cidrs : UpdateCidrs(l, n, cidrs)
    \/ \E l \in L3Outs : \E n \in Nets[l], v \in Vrfs[l] : DisconnectNoNat(l, n, v) \/ DeleteShadow(l, n, v)
    \/ \E l \in L3Outs, b \in DOMAIN Bds, add \in BOOLEAN : ChangeBd(l, b, add)
    \/ \E v \in {w \in AllVrfs : Tenant(w) # "common"} : ChangeVrf(v)

\* The strategy of an external network does not change while it has objects.
Next == Operation /\ UNCHANGED strategy

Spec == Init /\ [][Next]_vars

-----------------------------------------------------------------------------
(* Properties.                                                             *)

\* Types of the tables.
TypeOK ==
    /\ \A l \in DOMAIN l3outs : l3outs[l].monitored \in BOOLEAN
    /\ \A n \in DOMAIN nets : nets[n] \in BOOLEAN /\ n[1] \in DOMAIN l3outs
    /\ \A s \in subs : s[2] \in AllNets /\ s[3] \in Cidrs
    /\ \A b \in DOMAIN bds : bds[b] \subseteq {Name(l) : l \in L3Outs}
    /\ DOMAIN clones \subseteq DOMAIN l3outs

\* "Delete NAT EPG etc. in addition to deleting L3Out": whatever was done with an
\* L3Out, once it is deleted nothing that was created for it is left (but for EPG
\* subnets, which are the caller's, and the application profile, which other
\* L3Outs may share), and contracts and subnets belong to a network that exists
\* (except for subnets in shadows: see UpdateCidrs).
NothingLeft ==
    /\ \A r \in refs : <<r[2], r[3]>> \in DOMAIN nets
    /\ \A s \in subs : s[1] \in L3Outs => <<s[1], s[2]>> \in DOMAIN nets
    /\ \A l \in L3Outs \ DOMAIN l3outs :
        /\ nat \cap (NatObjects(l) \ {NatAp(l)}) = {}
        /\ \A gw \in Gateways[l] : <<"subnet", NatBd(l), gw>> \notin nat
        /\ NatVrf(l) \notin vrfs
        /\ \A n \in DOMAIN nets : n[1] # l

\* An L3Out that a strategy has created has all of its objects, whatever happens
\* to other L3Outs that share the application profile.
Complete ==
    \A l \in L3Outs \cap DOMAIN l3outs :
        ~l3outs[l].monitored => NatObjects(l) \subseteq nat /\ NatVrf(l) \in vrfs

\* A shadow L3Out exists as long as a network of its source is connected through
\* it: it has networks, each of which its source has too, and it never blocks the
\* deletion of the source.  The network says so as long as the VRF exists
\* (read_vrfs).
ShadowsInUse ==
    /\ \A c \in DOMAIN clones :
          /\ clones[c] \in DOMAIN l3outs
          /\ \E n \in AllNets : <<c, n>> \in DOMAIN nets /\ <<clones[c], n>> \in DOMAIN nets
    /\ \A l \in DOMAIN l3outs \ L3Outs : l \in DOMAIN clones
    /\ \A n \in DOMAIN nets : n[1] \in DOMAIN clones => <<clones[n[1]], n[2]>> \in DOMAIN nets
    /\ strategy # "nonat" =>
          \A l \in L3Outs \cap DOMAIN l3outs, v \in AllVrfs \cap vrfs, n \in AllNets :
             <<Clone(l, v), n>> \in DOMAIN nets => v \in ReadVrfs(l)

\* "Update external CIDRs in main and cloned ExternalNetworks": the same traffic is
\* allowed in a network and in its shadows.
ShadowsAgree ==
    \A n \in DOMAIN nets :
        n[1] \in DOMAIN clones =>
            \A c \in Cidrs : <<n[1], n[2], c>> \in subs <=> <<clones[n[1]], n[2], c>> \in subs
=============================================================================
