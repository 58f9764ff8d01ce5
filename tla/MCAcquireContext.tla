-------------------------- MODULE MCAcquireContext --------------------------
(* Small instances of AcquireContext: two credentials with one permit each,  *)
(* of which the first is bound to a pool proxy, and one call of the program   *)
(* at a time; and one credential with more permits than the program.          *)
EXTENDS AcquireContext, TLC

CONSTANTS c1, c2, p1, global

OnePermitEach == c1 :> 1 @@ c2 :> 1 @@ p1 :> 1 @@ global :> 1
FirstBehindProxy == c1 :> p1 @@ c2 :> NoProxy

TwoOnCred == c1 :> 2 @@ p1 :> 1 @@ global :> 1
NoProxies == c1 :> NoProxy

RequestSymmetry == Permutations(Requests)

=============================================================================
