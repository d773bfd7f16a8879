--------------------------- MODULE MCRunAuthority ---------------------------
(***************************************************************************)
(* A run in local mode: service tokens and actor headers.  Next to the     *)
(* runtime an analyst sends commands, and a workload sends one the node    *)
(* does not declare.                                                       *)
(***************************************************************************)
EXTENDS RunAuthority

Browser(roles) == [bearer |-> {}, actor |-> {"dana"}, roles |-> roles, tenant |-> {},
                   type |-> "human", internal |-> {}, action |-> "case.write"]

AtCaseApi(roles) == UNION {edgeHeaders(f) : f \in proxy(Browser(roles))}

Command(id, type, actor, execution) ==
  [id |-> id, type |-> type, actor |-> actor, plan |-> "plan", permission |-> "permission",
   execution |-> execution]

MCCaseRequests ==
  {[requests |-> AtCaseApi({"Case.Analyst"}), command |-> Command("cmd_1", "RecordClaim", a, {})]
     : a \in {"HUMAN", "AGENT"}}
  \cup {[requests |-> {runtimeRequest}, command |-> Command("cmd_2", "RecordFact", "AGENT", {})]}
=============================================================================
