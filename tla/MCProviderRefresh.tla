------------------------- MODULE MCProviderRefresh -------------------------
(***************************************************************************)
(* ProviderRefresh for TLC: three requests, two lists, and the answers     *)
(* that differ in what they make refresh_provider_sub assign.              *)
(***************************************************************************)
EXTENDS ProviderRefresh

CONSTANTS x, y, o1, o2

Ok(list, header) == [status |-> "200", list |-> list, header |-> header]

Userinfo(used, total, expire) ==
    [used |-> used, total |-> total, expire |-> expire]

MCAnswers ==
    {[status |-> "5xx"], [status |-> "network error"],
     Ok(o1, Null), Ok(o2, Userinfo(1, 2, Null)), Ok(o1, Userinfo(Null, Null, 1)),
     Ok(o2, Userinfo(1, 1, Absurd))}

\* An edit of the URL, and one of the limits.
MCPatches == {[url |-> y], [c \in {"total", "used"} |-> 2]}

=============================================================================
