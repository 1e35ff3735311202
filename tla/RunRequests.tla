---------------------------- MODULE RunRequests ----------------------------
(***************************************************************************)
(* What createRun of core/run-service.ts asks of a request before it looks *)
(* at the runs there are, and what webhook-url-policy.ts asks of the URL   *)
(* of its webhook.  A profile, its skills and its workspaces are fixed.    *)
(***************************************************************************)
EXTENDS FiniteSets

Modes == {"legacy", "business-context", "daemon-composed"}

\* Which of its optional parts a request has; allowed, of the skill it names.
Requests ==
  [mode : Modes, kind : {"generate", "revise"}, has : SUBSET {"prompt", "currentPrompt",
   "skillId", "businessContext", "contextPolicy"}, allowed : BOOLEAN]

Required(request) ==
  CASE request.mode = "legacy" ->
         {"prompt"} \cup IF request.kind = "generate" THEN {"skillId"} ELSE {}
    [] request.mode = "business-context" -> {"currentPrompt", "skillId"}
    [] request.mode = "daemon-composed" ->
         {"currentPrompt"} \cup IF request.kind = "generate" THEN {"skillId"} ELSE {}

Forbidden(request) ==
  CASE request.mode = "legacy" ->
         {"currentPrompt", "businessContext", "contextPolicy"}
           \cup IF request.kind = "revise" THEN {"skillId"} ELSE {}
    [] request.mode = "business-context" -> {"prompt", "contextPolicy"}
    [] request.mode = "daemon-composed" -> {"prompt", "businessContext"}

\* assertPromptModeRequestShape
HasShape(request) ==
  Required(request) \subseteq request.has /\ Forbidden(request) \cap request.has = {}

\* A skill that is named is one of the profile's.
SkillAllowed(request) == "skillId" \in request.has => request.allowed

\* What a request asks for that the client may have and that is there: the profile
\* and its collection mode, webhooks, the model, the workspace, the conversation in
\* it, the artifact rules; and whether the metadata of its webhook are short enough.
Asked == {"profile", "collectionMode", "webhooks", "model", "workspace", "conversation",
          "artifactRules", "shortMetadata"}

\* Before the first read of the database; given is the part of Asked that is given.
RequestError(request, given) ==
  IF "profile" \notin given THEN "FORBIDDEN"
  ELSE IF ~HasShape(request) THEN "BAD_REQUEST"
  ELSE IF "collectionMode" \notin given THEN "FORBIDDEN"
  ELSE IF ~SkillAllowed(request) THEN "SKILL_NOT_ALLOWED"
  ELSE IF "webhooks" \notin given THEN "BAD_REQUEST"
  ELSE IF "model" \notin given THEN "MODEL_NOT_ALLOWED"
  ELSE "none"

\* After it, still before the key is looked up.
ScopeError(given) ==
  IF "workspace" \notin given THEN "NOT_FOUND"
  ELSE IF {"conversation", "artifactRules", "shortMetadata"} \subseteq given THEN "none"
  ELSE "BAD_REQUEST"

SomeRequestIsRefused ==
  \E request \in Requests, given \in SUBSET Asked :
    RequestError(request, given) # "none" \/ ScopeError(given) # "none"

-----------------------------------------------------------------------------
(* assertWebhookUrlAllowed *)

\* Bound: an address of each kind that the policy tells apart; listed is private
\* and in one of the CIDRs of the configuration.
Addresses == {"public", "private", "listed", "ipv6"}

WebhookConfigs ==
  [allowInsecureHttp : BOOLEAN, allowedHosts : {{}, {"hooks"}}, allowPrivateNetworks : BOOLEAN]

Urls ==
  [protocol : {"http", "https", "ftp"}, host : {"hooks", "other"},
   oddity : {"none", "credentials", "fragment", "blockedPort"}]

\* A host that is listed may have any address.
AddressAllowed(address, host, config) ==
  \/ host \in config.allowedHosts
  \/ address = "public"
  \/ address = "listed" /\ config.allowPrivateNetworks

WebhookUrlAllowed(url, addresses, config) ==
  /\ url.protocol \in {"http", "https"}
  /\ url.protocol = "http" => config.allowInsecureHttp
  /\ url.oddity = "none"
  /\ config.allowedHosts # {} => url.host \in config.allowedHosts
  /\ addresses # {}
  /\ \A address \in addresses : AddressAllowed(address, url.host, config)

SomeWebhookIsRefused ==
  \E url \in Urls, addresses \in SUBSET Addresses, config \in WebhookConfigs :
    ~WebhookUrlAllowed(url, addresses, config)
=============================================================================
