--------------------------- MODULE ServiceContract ---------------------------
(***************************************************************************)
(* What the library promises, seen from outside: services that offer a     *)
(* routine under a name, and clients that each make one call.  A call runs *)
(* at most one routine, at most once, while its client is in the call or   *)
(* dead, and only a routine that was offered under the name and with the   *)
(* parameter list of the call; what the call returns says truthfully what  *)
(* happened.  No ports, threads or handles appear.                         *)
(***************************************************************************)
CONSTANTS
  Regs, Calls, Names, Shapes, ValidShapes, None,
  StaleRuns  (* whether a closed service may serve a call to another name  *)

VARIABLES
  service,       (* "none", "open" or "closed"                             *)
  offer,         (* the name and parameter list each service is offered by *)
  client,        (* "idle", "calling", "returned" or "dead"                *)
  asked,         (* the name and parameter list of each call               *)
  ran,           (* the service whose routine ran for each call            *)
  result,        (* what each call returned                                *)
  serviceStatus  (* the status of the routine it reported                  *)

callVars == <<client, asked, ran, result, serviceStatus>>
vars == <<service, offer, callVars>>

NoArgs == [name |-> None, shape |-> None]

Init ==
  /\ service = [r \in Regs |-> "none"] /\ offer = [r \in Regs |-> NoArgs]
  /\ client = [c \in Calls |-> "idle"] /\ asked = [c \in Calls |-> NoArgs]
  /\ ran = [c \in Calls |-> None] /\ result = [c \in Calls |-> None]
  /\ serviceStatus = [c \in Calls |-> None]

OpenUnder(n) == {r \in Regs : service[r] = "open" /\ offer[r].name = n}
ClosedUnder(n) == {r \in Regs : service[r] = "closed" /\ offer[r].name = n}

(* A service opens under a name that no open service has.                  *)
Open(r, n, s) ==
  /\ service[r] = "none" /\ OpenUnder(n) = {} /\ s \in ValidShapes
  /\ service' = [service EXCEPT ![r] = "open"]
  /\ offer' = [offer EXCEPT ![r] = [name |-> n, shape |-> s]]
  /\ UNCHANGED callVars

Close(r) ==
  /\ service[r] = "open" /\ service' = [service EXCEPT ![r] = "closed"]
  /\ UNCHANGED <<offer, callVars>>

(* A client makes its call, or has it rejected for its parameters.         *)
Begin(c, n, s) ==
  /\ client[c] = "idle"
  /\ asked' = [asked EXCEPT ![c] = [name |-> n, shape |-> s]]
  /\ \/ /\ s \in ValidShapes
        /\ client' = [client EXCEPT ![c] = "calling"]
        /\ UNCHANGED result
     \/ /\ client' = [client EXCEPT ![c] = "returned"]
        /\ result' = [result EXCEPT ![c] = "STATUS_INVALID_PARAMETER_2"]
  /\ UNCHANGED <<service, offer, ran, serviceStatus>>

(* A call is served by the service that was offered under its name and     *)
(* with its parameter list, or with that list only, where StaleRuns.       *)
Serves(r, c) ==
  \/ service[r] # "none" /\ offer[r] = asked[c]
  \/ StaleRuns /\ service[r] = "closed" /\ offer[r].shape = asked[c].shape

(* The routine runs: of a service that is open or was, for a client that   *)
(* waits for it or has died.                                               *)
Run(c, r) ==
  /\ client[c] \in {"calling", "dead"} /\ ran[c] = None
  /\ Serves(r, c)
  /\ ran' = [ran EXCEPT ![c] = r]
  /\ UNCHANGED <<service, offer, client, asked, result, serviceStatus>>

(* The call succeeds with the status of the routine that ran, or with word *)
(* that the parameters could not be brought to it, or back.                *)
Succeed(c, status) ==
  /\ client[c] = "calling"
  /\ IF ran[c] = None THEN status = "STATUS_INVALID_PARAMETER"
                      ELSE status \in {ran[c], "STATUS_ACCESS_DENIED"}
  /\ client' = [client EXCEPT ![c] = "returned"]
  /\ result' = [result EXCEPT ![c] = "STATUS_SUCCESS"]
  /\ serviceStatus' = [serviceStatus EXCEPT ![c] = status]
  /\ UNCHANGED <<service, offer, asked, ran>>

(* The call fails, and nothing has run: no service has the name, the       *)
(* service refuses the client, or the service has been closed.             *)
Fail(c, status) ==
  /\ client[c] = "calling" /\ ran[c] = None
  /\ \/ status = "STATUS_INVALID_PARAMETER_1" /\ OpenUnder(asked[c].name) = {}
     \/ status = "STATUS_INVALID_PARAMETER_2"
     \/ status = "STATUS_UNSUCCESSFUL" /\ ClosedUnder(asked[c].name) # {}
  /\ client' = [client EXCEPT ![c] = "returned"]
  /\ result' = [result EXCEPT ![c] = status]
  /\ UNCHANGED <<service, offer, asked, ran, serviceStatus>>

Die(c) ==
  /\ client[c] = "calling" /\ client' = [client EXCEPT ![c] = "dead"]
  /\ UNCHANGED <<service, offer, asked, ran, result, serviceStatus>>

Next ==
  \/ \E r \in Regs, n \in Names, s \in Shapes : Open(r, n, s)
  \/ \E r \in Regs : Close(r)
  \/ \E c \in Calls, n \in Names, s \in Shapes : Begin(c, n, s)
  \/ \E c \in Calls, r \in Regs : Run(c, r)
  \/ \E c \in Calls, status \in Regs \cup {"STATUS_INVALID_PARAMETER", "STATUS_ACCESS_DENIED"} :
       Succeed(c, status)
  \/ \E c \in Calls, status \in {"STATUS_INVALID_PARAMETER_1", "STATUS_INVALID_PARAMETER_2",
                                 "STATUS_UNSUCCESSFUL"} : Fail(c, status)
  \/ \E c \in Calls : Die(c)

Spec == Init /\ [][Next]_vars
=============================================================================
