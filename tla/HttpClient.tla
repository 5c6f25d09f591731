----------------------------- MODULE HttpClient -----------------------------
(***************************************************************************)
(* Http_client on top of Connection_pool: post, get and patch are the same  *)
(* sequence.  A request takes a connection, writes, reads, and gives the    *)
(* connection back when the Pooled_connection goes out of scope, by return  *)
(* or by exception alike.  apply_rate_limiting comes before the first step  *)
(* and only delays it (RateLimiter).                                       *)
(*                                                                         *)
(* The server (external) may close a connection at any time.  A stream that *)
(* its peer has closed, or whose exchange has failed half-way, is broken:   *)
(* nothing in the client ever repairs or reconnects it.                    *)
(***************************************************************************)
EXTENDS ConnectionPool

VARIABLES
    broken,  \* streams on which no exchange can succeed any more
    failed,  \* history: streams on which a request has failed
    result   \* what the current or last request of each thread has come to

httpVars == <<broken, failed, result>>
allVars == <<vars, httpVars>>

HttpInit ==
    /\ Init
    /\ broken = {}
    /\ failed = {}
    /\ result = [t \in Threads |-> "none"]

\* The request starts: wait for a connection or get one at once.
StartRequest(t) ==
    /\ \E h \in Hosts : GetConnection(t, h)
    /\ result' = [result EXCEPT ![t] = "pending"]
    /\ UNCHANGED <<broken, failed>>

WaitEnds(t) ==
    /\ Wake(t) \/ SpuriousWakeup(t)
    /\ UNCHANGED httpVars

\* A new stream works, whatever happened to the one it replaces.
Connected(t) ==
    /\ ConnectOk(t)
    /\ broken' = broken \ {held'[t]}
    /\ failed' = failed \ {held'[t]}
    /\ UNCHANGED result

\* get_connection returned -1: so does the request.
NotConnected(t) ==
    /\ ConnectFail(t)
    /\ result' = [result EXCEPT ![t] = "error"]
    /\ UNCHANGED <<broken, failed>>

Exchanging(t) == pc[t] = "holding" /\ result[t] = "pending"

\* http::write and http::read: the response.
ExchangeOk(t) ==
    /\ Exchanging(t)
    /\ held[t] \notin broken
    /\ result' = [result EXCEPT ![t] = "response"]
    /\ UNCHANGED <<vars, broken, failed>>

\* Mutant: the handler marks the handle as invalid.
ExchangeInvalidates(t) ==
    /\ Exchanging(t)
    /\ broken' = broken \cup {held[t]}
    /\ failed' = failed \cup {held[t]}
    /\ valid' = valid \ {t}
    /\ result' = [result EXCEPT ![t] = "error"]
    /\ UNCHANGED <<all, idle, in_use, stale, lock, pc, want, held, calls>>

\* http::write or http::read throws: the handler returns { -1, "" }.
ExchangeFails(t) ==
    /\ Exchanging(t)
    /\ broken' = broken \cup {held[t]}
    /\ failed' = failed \cup {held[t]}
    /\ result' = [result EXCEPT ![t] = "error"]
    /\ UNCHANGED vars

\* The Pooled_connection is destroyed and the request returns.
EndRequest(t) ==
    /\ result[t] \in {"response", "error"}
    /\ DropHandle(t)
    /\ UNCHANGED httpVars

\* The server closes a connection, by its keep-alive timeout for instance.
ServerCloses(c) ==
    /\ c \in all \ broken
    /\ broken' = broken \cup {c}
    /\ UNCHANGED <<vars, failed, result>>

EntryExpires(c) == Expire(c) /\ UNCHANGED httpVars

AllDone == Finished /\ UNCHANGED httpVars

Request(t) ==
    \/ StartRequest(t) \/ WaitEnds(t) \/ Connected(t) \/ NotConnected(t)
    \/ ExchangeOk(t) \/ ExchangeFails(t) \/ EndRequest(t)

HttpNext ==
    \/ \E t \in Threads : Request(t)
    \/ \E c \in Conns : ServerCloses(c) \/ EntryExpires(c)
    \/ AllDone

HttpSpec == HttpInit /\ [][HttpNext]_allVars

\* As in ConnectionPool; and the server answers or closes, since there is no
\* timeout on a read.
HttpFairSpec ==
    /\ HttpSpec
    /\ \A t \in Threads :
        /\ WF_allVars(WaitEnds(t) /\ pc[t] = "notified")
        /\ WF_allVars(Connected(t) \/ NotConnected(t))
        /\ WF_allVars(ExchangeOk(t) \/ ExchangeFails(t))
        /\ WF_allVars(EndRequest(t))

---------------------------------------------------------------------------
(* Properties. *)

\* The types; and no request ends without an answer.
HttpTypeOK ==
    /\ TypeOK
    /\ broken \subseteq Conns /\ failed \subseteq broken
    /\ result \in [Threads -> {"none", "pending", "response", "error"}]
    /\ \A t \in Threads : pc[t] = "out" => result[t] # "pending"

\* Requests that fail give their connection back like those that succeed: the
\* entries in use are exactly those of the requests under way, so errors never
\* use up the pool.
NoLeak == in_use = {held[t] : t \in {u \in Threads : pc[u] = "holding"}}

\* Every request returns, as long as no entry expires while others wait.
RequestsEnd ==
    [](stale = {}) => \A t \in Threads : result[t] = "pending" ~> pc[t] = "out"

\* A stream that is not alive is not handed out: at the latest when a request
\* has failed on it, no other request gets it.
NoDeadStream ==
    [][\A t \in Threads : held'[t] # held[t] => held'[t] \notin failed']_allVars
=============================================================================
