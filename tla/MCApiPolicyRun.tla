--------------------------- MODULE MCApiPolicyRun ---------------------------
(* ApiPolicyRun on small instances. *)
EXTENDS ApiPolicyRun

One(owner, denied) == [owner |-> owner, denied |-> denied]

\* Two actors and one case; two cases of one owner; the migrated format.
SmallPolicies ==
    {[legacy |-> FALSE, named |-> <<"ann", "bob">>, cases |-> <<One("ann", <<"bob">>)>>],
     [legacy |-> FALSE, named |-> <<"ann">>,
      cases |-> <<One("ann", <<Anonymous>>), One("ann", <<Anonymous>>)>>],
     [legacy |-> TRUE, named |-> <<"ann", "bob">>, cases |-> <<One("ann", <<"bob", Anonymous>>)>>]}
=============================================================================
