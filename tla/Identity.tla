------------------------------ MODULE Identity ------------------------------
(***************************************************************************)
(* Who a request is from and what it may do: packages/identity, the proxy  *)
(* of the control surface (apps/control-ui/src/proxy.ts) and the headers   *)
(* its backend sends on.  Pure operators; Authoring and RunAuthority call  *)
(* them at the start of every handler.                                     *)
(*                                                                         *)
(* An optional value is a set with at most one member, and a resolver      *)
(* answers with the set of the principal it resolves, empty when it        *)
(* throws.                                                                 *)
(***************************************************************************)
EXTENDS Naturals, FiniteSets

CONSTANTS
  PLATFORM_MODE,        \* "local" or "azure"
  IDENTITY_PROVIDER,    \* the variable of that name, {} when unset
  Environment,          \* names of the environment variables that are set
  UnsafeUrls,           \* those whose URL has a password or a local host
  LocalAutologin,       \* CONTROL_UI_LOCAL_AUTOLOGIN = "true"
  AutomatedApproval,    \* CONTROL_UI_LOCAL_AUTOMATED_APPROVAL = "true"
  AllowedClients        \* ENTRA_ALLOWED_CLIENT_IDS, empty when unset

ASSUME ModeAssumption == /\ PLATFORM_MODE \in {"local", "azure"}
                         /\ LocalAutologin \in BOOLEAN
                         /\ AutomatedApproval \in BOOLEAN

isAzureMode == PLATFORM_MODE = "azure"

OrElse(option, default) == IF option = {} THEN default ELSE CHOOSE x \in option : TRUE

----------------------------------------------------------------------------
(* Roles and actions. *)

READ_ACTIONS == {"plan.read", "run.read", "draft.read", "capability.read",
                 "case.read", "evidence.read", "receipt.read", "event.read"}

ROLE_ACTIONS(role) ==
  CASE role \in {"Harness.Reader", "Platform.Auditor"} -> READ_ACTIONS
    [] role = "Harness.Author"   -> READ_ACTIONS \cup {"draft.write", "draft.compile",
                                      "draft.evaluate", "agent.register", "capability.register"}
    [] role = "Harness.Approver" -> READ_ACTIONS \cup {"draft.approve", "draft.publish"}
    [] role = "Harness.Operator" -> READ_ACTIONS \cup {"plan.admit", "run.start", "run.cancel",
                                                       "run.retry"}
    [] role = "Case.Analyst"     -> {"case.read", "case.write", "evidence.read", "evidence.write",
                                     "run.read"}
    [] role = "Case.Reviewer"    -> {"case.read", "case.review", "evidence.read", "run.read"}
    [] role = "Control.Api.Access" -> {"plan.read", "run.read", "run.start", "event.read",
                                       "receipt.read"}
    [] role = "Case.Api.Access"  -> {"case.read", "case.write", "evidence.read", "evidence.write"}
    [] role = "Capability.Invoke" -> {"capability.read"}
    [] role = "Runtime.State.Write" -> {"runtime.state.write", "envelope.mint", "plan.read",
                                        "run.read"}
    [] OTHER -> {}

actionsForRoles(roles) == UNION {ROLE_ACTIONS(role) : role \in roles}

\* The tenant of the resource is optional; a handler that names none is not compared.
evaluate(principal, action, tenant) ==
  \E p \in principal : action \in actionsForRoles(p.roles) /\ tenant \subseteq {p.tenant}

----------------------------------------------------------------------------
(* Resolvers.  A request is its bearer credential and the actor headers.   *)

LocalHeaderPrincipal(request) ==
  {[subject |-> s, tenant |-> OrElse(request.tenant, "tenant_demo"), type |-> request.type,
    roles |-> IF request.roles = {} THEN {"Harness.Reader"} ELSE request.roles]
     : s \in request.actor}

\* The token's signature, issuer, audience and dates are its field "verified".
EntraAccepts(token) ==
  /\ token.verified
  /\ token.tid = {"entra"}
  /\ AllowedClients # {} => token.client # {} /\ token.client \subseteq AllowedClients

EntraPrincipal(request) ==
  UNION {{[subject |-> s, tenant |-> "tenant_demo", type |-> IF t.app THEN "workload" ELSE "human",
           roles |-> t.roles] : s \in t.subject}
            : t \in {t \in request.bearer : EntraAccepts(t)}}

identityProvider == OrElse(IDENTITY_PROVIDER, IF isAzureMode THEN "entra" ELSE "local_headers")

createPrincipalResolverFromEnv(request) ==
  CASE identityProvider = "entra" -> EntraPrincipal(request)
    [] identityProvider = "local_headers" /\ ~isAzureMode -> LocalHeaderPrincipal(request)
    [] OTHER -> {}

\* Grants have distinct tokens, so the first match is the only one.
ServiceTokenPrincipal(grants, request) ==
  {[subject |-> g.subject, tenant |-> "tenant_demo", type |-> "workload", roles |-> g.roles]
     : g \in {g \in grants : request.bearer = {g.token}}}

WorkloadPrincipal(grants, request) ==
  CASE ~isAzureMode -> ServiceTokenPrincipal(grants, request)
    [] isAzureMode /\ identityProvider = "entra" -> EntraPrincipal(request)
    [] OTHER -> {}

\* The actor headers are believed when the caller proves to be the edge.
DelegatedPrincipal(grants, request) ==
  {[subject |-> s, tenant |-> e.tenant, type |-> "human", roles |-> request.roles]
     : s \in request.actor,
       e \in {e \in WorkloadPrincipal(grants, request) :
                /\ "Edge.Delegate" \in e.roles
                /\ request.roles # {}
                /\ request.tenant \subseteq {e.tenant}}}

serviceGrantsFromEnv ==
  {g \in {[token |-> "EDGE_SERVICE_TOKEN", subject |-> "control-surface-edge",
           roles |-> {"Edge.Delegate"}],
          [token |-> "RUNTIME_SERVICE_TOKEN", subject |-> "harness-runtime",
           roles |-> {"Runtime.State.Write"}]} : g.token \in Environment}

----------------------------------------------------------------------------
(* The edge.  A browser's request also has a route and may carry copies of *)
(* the headers the edge uses internally.                                   *)

localAutomaticPrincipal(request) ==
  IF isAzureMode \/ ~LocalAutologin THEN {}
  ELSE IF AutomatedApproval /\ request.action \in {"draft.approve", "draft.publish"}
       THEN {[subject |-> "local-approver", tenant |-> "tenant_demo", type |-> "human",
              roles |-> {"Harness.Reader", "Harness.Approver"}]}
       ELSE {[subject |-> "local-author", tenant |-> "tenant_demo", type |-> "human",
              roles |-> {"Harness.Reader", "Harness.Author", "Harness.Operator", "Case.Analyst",
                         "Case.Reviewer"}]}

\* Mutant: inbound copies of the internal headers survive.
proxyKeepingCopies(request) ==
  {[request EXCEPT !.internal = IF @ = {} THEN {[subject |-> p.subject, tenant |-> p.tenant,
                                                 roles |-> p.roles]} ELSE @]
     : p \in {p \in createPrincipalResolverFromEnv(request) : p.type = "human"}}

\* The headers of the forwarded request: inbound copies are deleted first.
proxy(request) ==
  LET automatic == localAutomaticPrincipal(request)
      principal == IF automatic # {} THEN automatic ELSE createPrincipalResolverFromEnv(request)
  IN {[request EXCEPT !.internal = {[subject |-> p.subject, tenant |-> p.tenant,
                                     roles |-> p.roles]}]
        : p \in {p \in principal : p.type = "human"}}

\* In Azure the edge's own managed identity, whose token the credential keeps fresh.
edgeAuthorization ==
  IF isAzureMode
  THEN {[verified |-> TRUE, tid |-> {"entra"}, client |-> {"control-surface"},
         subject |-> {"control-surface-edge"}, app |-> TRUE, roles |-> {"Edge.Delegate"}]}
  ELSE {"EDGE_SERVICE_TOKEN"} \cap Environment

edgeHeaders(forwarded) ==
  {[bearer |-> edgeAuthorization, actor |-> {i.subject}, roles |-> i.roles,
    tenant |-> {i.tenant}, type |-> "human"]
     : i \in {i \in forwarded.internal : i.roles # {}}}

\* guard.require of a human route: the principal the handler runs for, if any.
requirePrincipal(request, action) ==
  {p \in UNION {DelegatedPrincipal(serviceGrantsFromEnv, h) :
                  h \in UNION {edgeHeaders(f) : f \in proxy(request)}} :
     evaluate({p}, action, {})}

\* runtimeGuard.require: workloads only, no delegation.
requireWorkload(request, action) ==
  {p \in WorkloadPrincipal(serviceGrantsFromEnv, request) : evaluate({p}, action, {})}

----------------------------------------------------------------------------
(* A process refuses to start in a configuration that mixes the modes. *)

assertPlatformInvariants(options) ==
  isAzureMode => /\ options.forbidden \cap Environment = {}
                 /\ options.required \subseteq Environment
                 /\ options.databaseUrls \cap UnsafeUrls = {}

controlApiInvariants ==
  [forbidden |-> {"EDGE_SERVICE_TOKEN", "RUNTIME_SERVICE_TOKEN", "EXECUTION_ENVELOPE_SECRET",
                  "RUNTIME_GRANT_SECRET"},
   required  |-> {"ENTRA_TENANT_ID", "ENTRA_API_AUDIENCE", "PLATFORM_TENANT_ID",
                  "EXECUTION_ENVELOPE_PRIVATE_KEY_PEM", "RUNTIME_GRANT_PUBLIC_KEY_PEM"},
   databaseUrls |-> {"DATABASE_URL"}]
=============================================================================
