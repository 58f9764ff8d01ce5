---------------------------- MODULE CallAdmission ----------------------------
(***************************************************************************)
(* What the acquisition of permits promises to the rest of the program: a   *)
(* call starts on a credential only while the credential, its pool proxy    *)
(* and the program as a whole are below their limits.                       *)
(***************************************************************************)
EXTENDS Naturals, FiniteSets

CONSTANTS Creds, Requests, Global, Limit, GlobalEnabled, ProxyOf, NoProxy, NoCred

VARIABLE running            \* the credential each request calls with, or NoCred

CallsOn(C) == Cardinality({r \in Requests : running[r] \in C})

Behind(p) == {c \in Creds : ProxyOf[c] = p}

Init == running = [r \in Requests |-> NoCred]

Enter(r, c) ==
    /\ running[r] = NoCred
    /\ CallsOn({c}) < Limit[c]
    /\ ProxyOf[c] # NoProxy => CallsOn(Behind(ProxyOf[c])) < Limit[ProxyOf[c]]
    /\ GlobalEnabled => CallsOn(Creds) < Limit[Global]
    /\ running' = [running EXCEPT ![r] = c]

Leave(r) ==
    /\ running[r] # NoCred
    /\ running' = [running EXCEPT ![r] = NoCred]

Next == \E r \in Requests : Leave(r) \/ \E c \in Creds : Enter(r, c)

Spec == Init /\ [][Next]_running

=============================================================================
