---------------------------- MODULE MCMlsEpochs ------------------------------
(***************************************************************************)
(* MlsEpochs with three devices.  In each plan a adds others; then two of  *)
(* them update at the same time, or one is removed while texts are sent,   *)
(* or removed and added again, or a proposal is committed by a removal, by *)
(* an update, or by two competing removals.  The last number is how many   *)
(* uploads may be refused and devices restarted.                           *)
(***************************************************************************)
EXTENDS MlsEpochs

CONSTANTS a, b, c

Plan(pa, pb, pc, n) == [calls |-> (a :> pa) @@ (b :> pb) @@ (c :> pc), losses |-> n]

MCPlans ==
    {Plan(<<"add", "update">>, <<"package", "update", "text">>, <<>>, 2),
     Plan(<<"add", "remove", "text">>, <<"package", "text">>, <<>>, 1),
     Plan(<<"add", "remove", "add">>, <<"package", "destroy", "package">>, <<>>, 1),
     Plan(<<"add", "propose", "remove">>, <<"package">>, <<"package">>, 1),
     Plan(<<"add", "propose">>, <<"package", "update">>, <<"package">>, 1),
     Plan(<<"add", "propose", "remove">>, <<"package", "remove">>, <<"package">>, 0)}
=============================================================================
