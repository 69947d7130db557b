---------------------------- MODULE MCTenantPush ----------------------------
(* An instance of TenantPush: a bridge domain and a subnet of another bridge *)
(* domain whose name starts with the name of the first.                      *)
EXTENDS TenantPush

CONSTANTS bd, subnet

PrefixNames == {<<bd, subnet>>}
=============================================================================
