--------------------------- MODULE MCNatStrategy ---------------------------
(* Instances of NatStrategy: a monitored L3Out and one that is created, in  *)
(* the same tenant and with one application profile.                       *)
EXTENDS NatStrategy, TLC

Monitored == <<"t1", <<"old">>>>
Created == <<"t1", <<"new">>>>

MCL3Outs == {Monitored, Created}
MCExisting == Monitored :> <<"v">>
MCVrfs == (Monitored :> {<<"t1", <<"v">>>>, <<"common", <<"v">>>>})
          @@ (Created :> {<<"t1", <<"v">>>>})
MCBds == <<"t1", <<"b">>>> :> <<"v">>
MCNets == (Monitored :> {"n1"}) @@ (Created :> {"n1", "n2"})
MCContracts == (Monitored :> {<<"ct">>}) @@ (Created :> {})
MCGateways == (Monitored :> {}) @@ (Created :> {"gw"})
MCEpgName == (Monitored :> <<"net">>) @@ (Created :> <<"new">>)
=============================================================================
