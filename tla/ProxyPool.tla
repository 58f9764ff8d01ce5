------------------------------- MODULE ProxyPool -------------------------------
(***************************************************************************)
(* The proxies of the pool and the credentials bound to them                *)
(* (kiro/proxy_manager.rs, the proxy requests of admin/service.rs,          *)
(* set_proxy_id of kiro/token_manager.rs).                                  *)
(*                                                                          *)
(* A binding is an id, and the id of a deleted proxy is given to the next   *)
(* one: AdminService has to unbind before it deletes.  Permits of proxies   *)
(* are in AcquireContext.  Which of the usable proxies is preferred (region, *)
(* load, free permits) is left open, and so are regions.                    *)
(***************************************************************************)
EXTENDS Integers, FiniteSetsExt

CONSTANTS
    PoolCreds, ProxyAdmins,
    PROXY_DEAD_THRESHOLD,
    MaxProxies              \* bound on the proxies ever added

ASSUME ProxyAssumption == PROXY_DEAD_THRESHOLD \in Nat \ {0} /\ MaxProxies \in Nat

VARIABLES
    proxies,                \* states: id to [entry, disabled, failures]
    proxiesAdded,           \* proxies ever added; an entry is its number
    boundTo,                \* proxy_id of each credential, 0 if it has none
    request,                \* what each administrator's request is at
    meant,                  \* history: the entry a credential was bound to
    missed                  \* history: credentials a deletion could not know of or unbind

proxyPoolVars == <<proxies, proxiesAdded, boundTo, request, meant, missed>>

NoRequest == [step |-> "none", id |-> 0, todo |-> {}, list |-> <<>>]
EntriesOf(ids) == [id \in ids |-> proxies[id].entry]
Usable(id) == ~proxies[id].disabled /\ proxies[id].failures < PROXY_DEAD_THRESHOLD
BoundToProxy(id) == {c \in PoolCreds : boundTo[c] = id}

ProxyPoolInit ==
    /\ proxies = <<>> /\ proxiesAdded = 0
    /\ boundTo = [c \in PoolCreds |-> 0] /\ meant = [c \in PoolCreds |-> 0]
    /\ request = [a \in ProxyAdmins |-> NoRequest]
    /\ missed = {}

Starts(a, r) == request[a] = NoRequest /\ request' = [request EXCEPT ![a] = r]
Ends(a) == request' = [request EXCEPT ![a] = NoRequest]

\* set_proxy_id, for a proxy as it was when it was looked up; 0 unbinds.
SetProxyId(c, id, entry) ==
    /\ boundTo' = [boundTo EXCEPT ![c] = id]
    /\ meant' = [meant EXCEPT ![c] = entry]
    /\ missed' =
           IF \/ id # 0 /\ (id \notin DOMAIN proxies \/ proxies[id].entry # entry)
              \/ \E a \in ProxyAdmins : request[a].step = "delete" /\ request[a].id = id
             THEN missed \cup {c} ELSE missed \ {c}

-----------------------------------------------------------------------------
(* Requests of one step *)

NextProxyId == Max(DOMAIN proxies \cup {0}) + 1

\* A failure to save is reported, and the proxy stays.
AddProxy ==
    /\ proxiesAdded < MaxProxies
    /\ proxiesAdded' = proxiesAdded + 1
    /\ proxies' = [id \in DOMAIN proxies \cup {NextProxyId} |->
           IF id = NextProxyId THEN [entry |-> proxiesAdded', disabled |-> FALSE, failures |-> 0]
                          ELSE proxies[id]]
    /\ UNCHANGED <<boundTo, request, meant, missed>>

\* The entry is replaced under its id; its health stays.
UpdateProxy(id) ==
    /\ proxies' = [proxies EXCEPT ![id].disabled = ~@]
    /\ UNCHANGED <<proxiesAdded, boundTo, request, meant, missed>>

-----------------------------------------------------------------------------
(* delete_proxy *)

\* Fault: the proxy is deleted and the bindings stay.
DeleteUnbindsNothing(a, id) ==
    Starts(a, [NoRequest EXCEPT !.step = "delete", !.id = id])

\* The credentials bound by then are unbound one by one ...
DeleteBegins(a, id) ==
    Starts(a, [NoRequest EXCEPT !.step = "delete", !.id = id, !.todo = BoundToProxy(id)])

\* ... whatever they are bound to when their turn comes.
UnbindOne(a, c) ==
    /\ request[a].step = "delete" /\ c \in request[a].todo
    /\ request' = [request EXCEPT ![a].todo = @ \ {c}]
    /\ \/ SetProxyId(c, 0, 0)
       \/ missed' = missed \cup {c} /\ UNCHANGED <<boundTo, meant>>
    /\ UNCHANGED <<proxies, proxiesAdded>>

DeleteEnds(a) ==
    /\ request[a].step = "delete" /\ request[a].todo = {}
    /\ proxies' = [id \in DOMAIN proxies \ {request[a].id} |-> proxies[id]]
    /\ Ends(a)
    /\ UNCHANGED <<proxiesAdded, boundTo, meant, missed>>

-----------------------------------------------------------------------------
(* Requests that bind: a list of proxies is taken first and used later. *)

BindBegins(a) ==
    /\ \* set_credential_proxy: the proxy exists
       \/ \E c \in PoolCreds, id \in DOMAIN proxies :
              Starts(a, [step |-> "bind", id |-> 0, todo |-> {c}, list |-> EntriesOf({id})])
       \* set_credential_proxy_by_region, assign_proxy_before_validation and, in the
       \* provider, choose_replacement_proxy: one that is usable
       \/ \E c \in PoolCreds, id \in DOMAIN proxies :
              /\ Usable(id) /\ id # boundTo[c]
              /\ Starts(a, [step |-> "bind", id |-> 0, todo |-> {c}, list |-> EntriesOf({id})])
       \* auto_assign_proxies: all that are usable, for the unbound or for all
       \/ \E todo \in {BoundToProxy(0), PoolCreds} :
              Starts(a, [step |-> "bind", id |-> 0, todo |-> todo,
                         list |-> EntriesOf({id \in DOMAIN proxies : Usable(id)})])
    /\ UNCHANGED <<proxies, proxiesAdded, boundTo, meant, missed>>

\* The binding may fail; then the credential keeps the one it has.
BindOne(a, c) ==
    /\ request[a].step = "bind" /\ c \in request[a].todo
    /\ request' = [request EXCEPT ![a].todo = @ \ {c}]
    /\ \/ \E id \in DOMAIN request[a].list : SetProxyId(c, id, request[a].list[id])
       \/ UNCHANGED <<boundTo, meant, missed>>
    /\ UNCHANGED <<proxies, proxiesAdded>>

BindEnds(a) ==
    /\ request[a].step = "bind" /\ request[a].todo = {}
    /\ Ends(a)
    /\ UNCHANGED <<proxies, proxiesAdded, boundTo, meant, missed>>

-----------------------------------------------------------------------------
(* test_proxy: the answer is recorded for whatever has the id by then. *)

TestBegins(a, id) ==
    /\ Starts(a, [NoRequest EXCEPT !.step = "test", !.id = id])
    /\ UNCHANGED <<proxies, proxiesAdded, boundTo, meant, missed>>

RecordHealth(a) ==
    /\ request[a].step = "test"
    /\ IF request[a].id \in DOMAIN proxies
         THEN \/ proxies' = [proxies EXCEPT ![request[a].id].failures = 0]
              \/ proxies' = [proxies EXCEPT ![request[a].id].failures =
                                 Min({@ + 1, PROXY_DEAD_THRESHOLD})]
         ELSE UNCHANGED proxies
    /\ Ends(a)
    /\ UNCHANGED <<proxiesAdded, boundTo, meant, missed>>

ProxyPoolNext ==
    \/ AddProxy
    \/ \E id \in DOMAIN proxies : UpdateProxy(id)
    \/ \E a \in ProxyAdmins :
           \/ \E id \in DOMAIN proxies :
                  \/ TestBegins(a, id)
                  \/ /\ DeleteBegins(a, id)
                     /\ UNCHANGED <<proxies, proxiesAdded, boundTo, meant, missed>>
           \/ \E c \in PoolCreds : UnbindOne(a, c) \/ BindOne(a, c)
           \/ DeleteEnds(a) \/ BindBegins(a) \/ BindEnds(a) \/ RecordHealth(a)

-----------------------------------------------------------------------------
\* A credential is bound to the proxy it was given, and never to another that took over
\* the id, unless a deletion could not unbind it or it was bound while one was under way
\* or after it.
BindingKeepsItsProxy ==
    \A c \in PoolCreds :
        boundTo[c] # 0 /\ c \notin missed =>
            /\ boundTo[c] \in DOMAIN proxies
            /\ proxies[boundTo[c]].entry = meant[c]

=============================================================================
