---------------------------- MODULE RemoteFacade ----------------------------
(***************************************************************************)
(* The remote facade: the HTTP client calls Read, Prepare, Commit and      *)
(* Abort of a coordinator process and the server handlers that execute     *)
(* them (Server.Run's router in src/datastore.go).  Two clients exist in   *)
(* src/: the fasthttp Client of src/pkg/txn/transaction.go and the older   *)
(* net/http Client of src/pkg/network/client.go; impl is the one the      *)
(* process was built with, a choice of Init.  The callers are goroutines   *)
(* of one client process; log.Fatal in any of them ends the process.     *)
(* The server is another process and keeps executing the requests it has  *)
(* received after the client has died.                                     *)
(*                                                                         *)
(* What an operation does on the server (reader.Read, committer.Prepare,   *)
(* ...) is abstracted to its outcome, ok or err.  Faults: the connection   *)
(* breaks before or after the server handled the request (fasthttp.Do /   *)
(* HttpClient.Do return an error); the server cannot decode the body and  *)
(* answers 400 (the clients encode with json2 or encoding/json, the        *)
(* handlers decode with either, and the request types of a client and a    *)
(* server build need not match); the read handler's json.Marshal of the    *)
(* item fails and its error is dropped, so the 200 response has an empty   *)
(* body.                                                                   *)
(***************************************************************************)
EXTENDS Integers, FiniteSets

CONSTANTS
    Caller,     \* goroutines of the client process issuing remote calls
    NumServers, \* len(ServerAddrList) of the fasthttp Client
    NoCaller,   \* the fasthttp Client's mutex is free
    Impls,    \* builds: "fasthttp" (pkg/txn) and/or "nethttp" (pkg/network)
    MaxCalls  \* bound on the number of calls issued

ASSUME Impls \subseteq {"fasthttp", "nethttp"} /\ MaxCalls \in Nat

Op == {"read", "prepare", "commit", "abort"}

(* What the client's Do call hands back: a transport error, or an HTTP     *)
(* answer; body "text" is ctx.Error's plain-text message.                  *)
NetErr == [code |-> 0, body |-> "none", status |-> "none"]
NoResp == [code |-> -1, body |-> "none", status |-> "none"]
Rejected == [code |-> 400, body |-> "text", status |-> "none"]

VARIABLES
    impl,     \* the client implementation the process was built with
    pc,       \* per caller: "idle", "sent" (inside Do) or "returned"
    op,       \* the operation of each caller's current call
    inflight, \* callers whose request the server has received, not handled
    resp,     \* what Do returns to each waiting caller, or NoResp
    applied,  \* the server-side outcome of each caller's current call
    result,   \* what the current call returned to its caller
    alive,    \* the client process is running (no log.Fatal yet)
    fatal,    \* the callers whose log.Fatal ended the process
    calls,    \* calls issued (bounded by MaxCalls)
    curIndex, holder, gpc, gcalls, served  \* Client.GetServerAddr's state

facadeVars == <<impl, pc, op, inflight, resp, applied, result, alive, fatal, calls>>
rcVars == <<curIndex, holder, gpc, gcalls, served>>
vars == <<facadeVars, rcVars>>

(* The fasthttp Client picks the server of every call with GetServerAddr, *)
(* the round robin of RemoteClient, shared by all the calling goroutines.  *)
RC == INSTANCE RemoteClient WITH pc <- gpc, calls <- gcalls

Init ==
    /\ impl \in Impls
    /\ pc = [c \in Caller |-> "idle"]
    /\ op = [c \in Caller |-> "read"]
    /\ inflight = {}
    /\ resp = [c \in Caller |-> NoResp]
    /\ applied = [c \in Caller |-> "none"]
    /\ result = [c \in Caller |-> "none"]
    /\ alive = TRUE
    /\ fatal = {}
    /\ calls = 0
    /\ RC!Init

(* log.Fatal in caller c: os.Exit, every goroutine of the process stops.   *)
Die(c) ==
    /\ alive' = FALSE
    /\ fatal' = fatal \cup {c}

CanCall(c) == alive /\ pc[c] \in {"idle", "returned"} /\ calls < MaxCalls

(* A call begins: the request is built; the net/http client sends it at   *)
(* once (HttpClient.Do), the fasthttp client first asks GetServerAddr for  *)
(* the server (pc "addr").                                                  *)
BeginCall(c, o, next) ==
    /\ pc' = [pc EXCEPT ![c] = next]
    /\ op' = [op EXCEPT ![c] = o]
    /\ inflight' = IF next = "sent" THEN inflight \cup {c} ELSE inflight
    /\ resp' = [resp EXCEPT ![c] = NoResp]
    /\ applied' = [applied EXCEPT ![c] = "none"]
    /\ result' = [result EXCEPT ![c] = "none"]
    /\ calls' = calls + 1
    /\ UNCHANGED <<rcVars, impl, alive, fatal>>

SendRequest(c, o) == BeginCall(c, o, "sent")

AwaitAddr(c, o) == BeginCall(c, o, "addr")

(* The steps of c.GetServerAddr() under c.mutex; at the return the URL is  *)
(* complete and fasthttp.Do sends the request.                             *)
AddrLock(c) ==
    /\ alive /\ pc[c] = "addr"
    /\ RC!Lock(c)
    /\ UNCHANGED facadeVars

AddrStep(c) ==
    /\ alive
    /\ RC!WrapIndex(c) \/ RC!ReadAddr(c) \/ RC!Increment(c)
    /\ UNCHANGED facadeVars

AddrUnlock(c) ==
    /\ alive
    /\ RC!Unlock(c)
    /\ pc' = [pc EXCEPT ![c] = "sent"]
    /\ inflight' = inflight \cup {c}
    /\ UNCHANGED <<impl, op, resp, applied, result, alive, fatal, calls>>

(* Client.Read, Commit, Abort (fasthttp): the request is marshalled with   *)
(* its error dropped and its server is asked for.                          *)
Read(c) ==
    /\ impl = "fasthttp" /\ CanCall(c)
    /\ AwaitAddr(c, "read")

Commit(c) ==
    /\ impl = "fasthttp" /\ CanCall(c)
    /\ AwaitAddr(c, "commit")

Abort(c) ==
    /\ impl = "fasthttp" /\ CanCall(c)
    /\ AwaitAddr(c, "abort")

(* Client.Prepare (fasthttp): a json2.Marshal error of the item list is    *)
(* log.Fatal before anything is sent.                                      *)
Prepare(c) ==
    /\ impl = "fasthttp" /\ CanCall(c)
    /\ \/ AwaitAddr(c, "prepare")
       \/ /\ Die(c)
          /\ resp' = [resp EXCEPT ![c] = NoResp]
          /\ calls' = calls + 1
          /\ UNCHANGED <<rcVars, impl, pc, op, inflight, applied, result>>

(* network.Client.Read, Commit, Abort: http.NewRequest cannot fail on the  *)
(* fixed "http://" URL and method, so the request is sent.                 *)
LegacyRead(c) ==
    /\ impl = "nethttp" /\ CanCall(c)
    /\ SendRequest(c, "read")

LegacyCommit(c) ==
    /\ impl = "nethttp" /\ CanCall(c)
    /\ SendRequest(c, "commit")

LegacyAbort(c) ==
    /\ impl = "nethttp" /\ CanCall(c)
    /\ SendRequest(c, "abort")

(* network.Client.Prepare: an item that is not a *redis.RedisItem returns  *)
(* "unexpected data type" without a request.                               *)
LegacyPrepare(c) ==
    /\ impl = "nethttp" /\ CanCall(c)
    /\ \/ SendRequest(c, "prepare")
       \/ /\ pc' = [pc EXCEPT ![c] = "returned"]
          /\ op' = [op EXCEPT ![c] = "prepare"]
          /\ applied' = [applied EXCEPT ![c] = "none"]
          /\ result' = [result EXCEPT ![c] = "error"]
          /\ resp' = [resp EXCEPT ![c] = NoResp]
          /\ calls' = calls + 1
          /\ UNCHANGED <<rcVars, impl, inflight, alive, fatal>>
-----------------------------------------------------------------------------
(* A handler of the server: json.Unmarshal of the body fails and ctx.Error *)
(* answers 400, or the operation runs and its outcome is encoded as        *)
(* Status "OK" or "Error" in a 200 answer whose body is what json.Marshal  *)
(* produced (one of Bodies).  The answer reaches the caller only if it is  *)
(* still waiting on that connection.                                      *)
Handle(c, o, Bodies) ==
    /\ c \in inflight /\ op[c] = o
    /\ inflight' = inflight \ {c}
    /\ \E a \in {Rejected} \cup
                 {[code |-> 200, body |-> b, status |-> s] :
                     b \in Bodies, s \in {"OK", "Error"}} :
          /\ applied' = [applied EXCEPT ![c] =
                 CASE a.status = "OK" -> "ok"
                   [] a.status = "Error" -> "err"
                   [] OTHER -> "none"]
          /\ resp' = IF alive /\ pc[c] = "sent" /\ resp[c] = NoResp
                     THEN [resp EXCEPT ![c] = a] ELSE resp
    /\ UNCHANGED <<rcVars, impl, pc, op, result, alive, fatal, calls>>

(* readHandler: the ReadResponse carries the item; its json.Marshal error  *)
(* is dropped, so a 200 answer may have an empty body.                     *)
ReadHandler(c) == Handle(c, "read", {"json", "empty"})

(* prepareHandler, commitHandler, abortHandler: the responses hold only    *)
(* strings and integers and always marshal.                                *)
PrepareHandler(c) == Handle(c, "prepare", {"json"})

CommitHandler(c) == Handle(c, "commit", {"json"})

AbortHandler(c) == Handle(c, "abort", {"json"})

(* The connection breaks while caller c is inside Do: Do returns an error. *)
(* The request may never have reached the server, may still be executed   *)
(* by it, or may have been executed with its answer lost.                  *)
ConnectionFails(c) ==
    /\ alive /\ pc[c] = "sent" /\ resp[c] # NetErr
    /\ resp' = [resp EXCEPT ![c] = NetErr]
    /\ \/ inflight' = inflight
       \/ inflight' = inflight \ {c}
    /\ UNCHANGED <<rcVars, impl, pc, op, applied, result, alive, fatal, calls>>

(* The end of a call: what the client makes of what Do returned.           *)
Return(c, r) ==
    /\ pc' = [pc EXCEPT ![c] = "returned"]
    /\ result' = [result EXCEPT ![c] = r]
    /\ UNCHANGED <<rcVars, impl, op, inflight, resp, applied, alive, fatal, calls>>

Fatal(c) ==
    /\ Die(c)
    /\ UNCHANGED <<rcVars, impl, pc, op, inflight, resp, applied, result, calls>>

(* Mutant: a transport error returned to the caller as an error.          *)
ReceiveNetErrReturned(c) ==
    /\ impl = "fasthttp" /\ alive /\ pc[c] = "sent" /\ resp[c] # NoResp
    /\ CASE resp[c] = NetErr       -> Return(c, "error")
          [] resp[c].code # 200     -> Return(c, "error")
          [] resp[c].body # "json"  -> Fatal(c)
          [] resp[c].status = "OK"  -> Return(c, "ok")
          [] OTHER                  -> Return(c, "error")

(* Mutant: the status code is not checked before Unmarshal.                *)
ReceiveNoStatusCheck(c) ==
    /\ impl = "fasthttp" /\ alive /\ pc[c] = "sent" /\ resp[c] # NoResp
    /\ CASE resp[c] = NetErr       -> Fatal(c)
          [] resp[c].body # "json"  -> Fatal(c)
          [] resp[c].status = "OK"  -> Return(c, "ok")
          [] OTHER                  -> Return(c, "error")

(* Mutant: a non-200 answer makes the client send the request again.      *)
ReceiveRetryRejected(c) ==
    /\ impl = "fasthttp" /\ alive /\ pc[c] = "sent" /\ resp[c] # NoResp
    /\ CASE resp[c] = NetErr       -> Fatal(c)
          [] resp[c].code # 200     -> /\ inflight' = inflight \cup {c}
                                      /\ resp' = [resp EXCEPT ![c] = NoResp]
                                      /\ UNCHANGED <<rcVars, impl, pc, op, applied,
                                                     result, alive, fatal, calls>>
          [] resp[c].body # "json"  -> Fatal(c)
          [] resp[c].status = "OK"  -> Return(c, "ok")
          [] OTHER                  -> Return(c, "error")

(* The tail of Client.Read/Prepare/Commit/Abort (fasthttp): a Do error is  *)
(* log.Fatal; a status other than 200 returns "unexpected status code";    *)
(* an Unmarshal error is log.Fatal; Status "OK" returns the result, any    *)
(* other status the server's ErrMsg.                                       *)
Receive(c) ==
    /\ impl = "fasthttp" /\ alive /\ pc[c] = "sent" /\ resp[c] # NoResp
    /\ CASE resp[c] = NetErr       -> Fatal(c)
          [] resp[c].code # 200     -> Return(c, "error")
          [] resp[c].body # "json"  -> Fatal(c)
          [] resp[c].status = "OK"  -> Return(c, "ok")
          [] OTHER                  -> Return(c, "error")

(* Mutant: a body that does not decode read as a failed call.            *)
LegacyReceiveUndecodedError(c) ==
    /\ impl = "nethttp" /\ alive /\ pc[c] = "sent" /\ resp[c] # NoResp
    /\ CASE resp[c] = NetErr       -> Fatal(c)
          [] resp[c].body # "json"  -> Return(c, "error")
          [] resp[c].status = "OK"  -> Return(c, "ok")
          [] OTHER                  -> Return(c, "error")

(* The tail of network.Client's calls: a Do or io.ReadAll error is         *)
(* log.Fatal; the status code is not looked at, so any body that is not    *)
(* the JSON response fails json.Unmarshal and is log.Fatal.                *)
LegacyReceive(c) ==
    /\ impl = "nethttp" /\ alive /\ pc[c] = "sent" /\ resp[c] # NoResp
    /\ CASE resp[c] = NetErr       -> Fatal(c)
          [] resp[c].body # "json"  -> Fatal(c)
          [] resp[c].status = "OK"  -> Return(c, "ok")
          [] OTHER                  -> Return(c, "error")

(* Every call is done, or the process is gone and the server has drained. *)
Terminated ==
    /\ inflight = {}
    /\ \/ ~alive
       \/ calls = MaxCalls /\ \A c \in Caller : pc[c] \notin {"addr", "sent"}
    /\ UNCHANGED vars

Client(c) ==
    \/ Read(c) \/ Prepare(c) \/ Commit(c) \/ Abort(c) \/ Receive(c)
    \/ LegacyRead(c) \/ LegacyPrepare(c) \/ LegacyCommit(c) \/ LegacyAbort(c)
    \/ LegacyReceive(c)

Server(c) ==
    ReadHandler(c) \/ PrepareHandler(c) \/ CommitHandler(c) \/ AbortHandler(c)

Next ==
    \/ \E c \in Caller : \/ Client(c) \/ Server(c) \/ ConnectionFails(c)
                         \/ AddrLock(c) \/ AddrStep(c) \/ AddrUnlock(c)
    \/ Terminated

Spec == Init /\ [][Next]_vars

(* The server process handles every request it has received (fasthttp     *)
(* serves each connection in its own goroutine) and the Go runtime runs    *)
(* every goroutine that can run: weak fairness for the handlers and for   *)
(* each caller's own steps.  A caller waiting for c.mutex can take it only *)
(* between other callers' holds; sync.Mutex hands the lock to a waiter    *)
(* that has waited past 1 ms (starvation mode), which is strong fairness  *)
(* for AddrLock.  Lost connections and the calls a goroutine issues are    *)
(* not forced.                                                             *)
FairSpec ==
    /\ Spec
    /\ \A c \in Caller :
        /\ WF_vars(Server(c))
        /\ WF_vars(Receive(c)) /\ WF_vars(LegacyReceive(c))
        /\ SF_vars(AddrLock(c))
        /\ WF_vars(AddrStep(c)) /\ WF_vars(AddrUnlock(c))

-----------------------------------------------------------------------------
(* A call that returns tells its caller the truth about the server: it     *)
(* returns success exactly when the server executed the operation          *)
(* successfully, and an error only when the operation failed or was never *)
(* executed.  The ambiguous case, a server that executed the request whose *)
(* answer was lost with the connection, must never return.                *)
OutcomeAgreement ==
    \A c \in Caller :
        pc[c] = "returned" => (result[c] = "ok" <=> applied[c] = "ok")

(* A request the server rejects with a non-200 status (spec section 6:     *)
(* such failures surface as non-200 codes) returns an error to its caller; *)
(* it never ends the client process.                                       *)
RejectionReturnsError ==
    \A c \in fatal : resp[c] # Rejected

(* The fasthttp client of pkg/txn checks the status code before it decodes *)
(* the body: with it, a rejected request returns an error and never ends   *)
(* the process, whatever the server and the connection do.                 *)
FasthttpRejectionReturnsError ==
    impl = "fasthttp" => RejectionReturnsError

(* The goroutines' calls share one Client: however they interleave, no     *)
(* GetServerAddr indexes the server list out of range and the calls are    *)
(* spread over the servers in turn (RemoteClient's properties, here with   *)
(* the remote calls that make them).                                       *)
GetServerAddrSafe == RC!NoIndexPanic /\ RC!RoundRobin

(* fasthttp.Do and HttpClient.Do are called without a timeout: every call  *)
(* that has begun (waiting for GetServerAddr or inside Do) eventually      *)
(* returns to its goroutine, unless log.Fatal has ended the process,       *)
(* however the calls contend for c.mutex and whatever the server answers. *)
CallsComplete ==
    \A c \in Caller : pc[c] \in {"addr", "sent"} ~> (pc[c] = "returned" \/ ~alive)
====
