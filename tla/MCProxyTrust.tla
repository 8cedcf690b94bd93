--------------------------- MODULE MCProxyTrust ---------------------------
(* The instance of ProxyTrust TLC checks: two trusted networks that        *)
(* overlap, two addresses outside both.                                   *)
EXTENDS ProxyTrust

CONSTANTS edge, inner, user, other

MCAddrs    == {edge, inner, user, other}
MCCIDRs == {{edge}, {edge, inner}}
=============================================================================
