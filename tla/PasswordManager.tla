---------------------------- MODULE PasswordManager ----------------------------
(***************************************************************************)
(* The page of the password server: what a deployment is configured to use,*)
(* the status file that its operation writes, and a request to the server  *)
(* over an address that was looked up before.  Everything is read anew for *)
(* each page; the file, the name service and the server change meanwhile.  *)
(***************************************************************************)
EXTENDS Requests

Vanilla == "vaultwarden-1.37.2"
Derived == "intelligent-beast-vaultwarden-derived"

PASSWORD_MANAGER_PRODUCTS ==
  [p \in {Vanilla, Derived} |->
     [provider |-> IF p = Vanilla THEN "vaultwarden" ELSE Derived,
      healthPaths |-> <<"/alive">>,
      requiresCutoverEvidence |-> p = Derived]]

(* What a code review fixed of the derived release: nothing yet.           *)
IB_PASSWORD_RELEASE_LOCK ==
  [productId |-> Derived, upstream |-> "1.37.2", upstreamCommit |-> "46d7",
   forkCommit |-> None, imageDigest |-> None]

-----------------------------------------------------------------------------
(* Addresses and URLs.  An address is its octets, or the kind of an IPv6   *)
(* address, with the IPv4 address it maps; a URL is [scheme, host, port,   *)
(* path, extra], its host a name or an address, extra whether it has a     *)
(* user, a query or a fragment.  The allowed origin is written without the *)
(* slash that a URL of the same origin has as its path.                    *)

isPublicIPv4(a) ==
  /\ a[1] \notin {0, 10, 127} /\ a[1] < 224
  /\ ~(a[1] = 169 /\ a[2] = 254)
  /\ ~(a[1] = 172 /\ a[2] \in 16..31)
  /\ ~(a[1] = 192 /\ a[2] = 168)
  /\ ~(a[1] = 100 /\ a[2] \in 64..127)

isPublicIpAddress(address) ==
  CASE address.kind \in {"ipv4", "mapped"} -> isPublicIPv4(address.octets)
    [] address.kind \in {"unspecified", "loopback", "unique_local", "link_local"} -> FALSE
    [] OTHER -> address.kind = "ipv6"

Origin(url) == [scheme |-> url.scheme, host |-> url.host, port |-> url.port]

isAllowedUrl(url, allowPrivate) ==
  /\ url # None /\ url.scheme = "https" /\ ~url.extra
  /\ url.host.kind = "name" \/ allowPrivate \/ isPublicIpAddress(url.host)

isOriginOnly(url, allowPrivate) ==
  isAllowedUrl(url, allowPrivate) /\ url.path = "/"

-----------------------------------------------------------------------------
(* readPasswordManagerConfig: env is the environment of the process; None  *)
(* stands for a variable that is unset or blank, "junk" for a value that   *)
(* is not one of those a variable may have.                                *)

allowedProduct(value) ==
  CASE value = None -> Vanilla
    [] value \in DOMAIN PASSWORD_MANAGER_PRODUCTS -> value
    [] OTHER -> None

productFor(env) ==
  LET id == allowedProduct(env.product)
  IN  IF id # None /\ env.provider \in {None, PASSWORD_MANAGER_PRODUCTS[id].provider} THEN id ELSE None

allowedHealthPath(env) ==
  LET product == productFor(env)
      paths   == PASSWORD_MANAGER_PRODUCTS[product].healthPaths
  IN  CASE product = None -> None
        [] product # None /\ env.healthPath = None -> paths[1]
        [] OTHER -> IF \E i \in DOMAIN paths : paths[i] = env.healthPath THEN env.healthPath ELSE None

healthUrlForPath(url, path) ==
  IF url = None \/ path = None THEN None
  ELSE [url EXCEPT !.path = path, !.extra = FALSE]

HealthUrl(env) ==
  IF env.healthUrl # None THEN env.healthUrl
  ELSE healthUrlForPath(env.url, allowedHealthPath(env))

ValidConfig(env) ==
  LET url    == env.url
      health == HealthUrl(env)
  IN  /\ productFor(env) # None
      /\ env.healthPath # None => allowedHealthPath(env) # None
      /\ url # None => /\ isAllowedUrl(url, env.allowPrivate)
                       /\ isOriginOnly(env.allowedOrigin, env.allowPrivate)
                       /\ Origin(url) = Origin(env.allowedOrigin)
      /\ health # None => /\ isAllowedUrl(health, env.allowPrivate)
                          /\ url # None /\ isAllowedUrl(url, env.allowPrivate)
                          /\ Origin(url) = Origin(health)
                          /\ health = healthUrlForPath(url, allowedHealthPath(env))
      /\ env.statusFile # "elsewhere"
      /\ "junk" \notin {env.mdm, env.evidence, env.backup, env.restoreTest, env.sync}

-----------------------------------------------------------------------------
(* The status file, as it is when it is read.                              *)

FromEnvironment(env) ==
  [source |-> "environment", backup |-> env.backup, restoreTest |-> env.restoreTest, sync |-> env.sync,
   productId |-> None, upstream |-> None, upstreamCommit |-> None, forkCommit |-> None, imageDigest |-> None,
   gates |-> <<None, None, None>>]

(* Owner and modes of the file and of its directory, and its size; then    *)
(* its keys and values.                                                    *)
Readable(file) ==
  /\ file.kept
  /\ "junk" \notin {file.backup, file.restoreTest, file.sync,
                   file.upstreamCommit, file.forkCommit, file.imageDigest}
  /\ file.productId \in {None} \cup DOMAIN PASSWORD_MANAGER_PRODUCTS
  /\ \A i \in 1..3 : file.gates[i] \in {None, "passed", "pending"}

FromFile(file) ==
  [source |-> "status_file", backup |-> file.backup, restoreTest |-> file.restoreTest, sync |-> file.sync,
   productId |-> file.productId, upstream |-> file.upstream, upstreamCommit |-> file.upstreamCommit,
   forkCommit |-> file.forkCommit, imageDigest |-> file.imageDigest, gates |-> file.gates]

(* Variant: the release is not asked whether it is fixed.                  *)
cutoverEvidenceMatches_Unfixed(product, ev) ==
  \/ product # None /\ ~PASSWORD_MANAGER_PRODUCTS[product].requiresCutoverEvidence
  \/ /\ product = Derived /\ ev.source = "status_file" /\ ev.productId = product
     /\ ev.upstream = IB_PASSWORD_RELEASE_LOCK.upstream
     /\ ev.upstreamCommit = IB_PASSWORD_RELEASE_LOCK.upstreamCommit
     /\ ev.forkCommit = IB_PASSWORD_RELEASE_LOCK.forkCommit
     /\ ev.imageDigest = IB_PASSWORD_RELEASE_LOCK.imageDigest
     /\ \A i \in 1..3 : ev.gates[i] = "passed"

cutoverEvidenceMatches(product, ev) ==
  LET release == IB_PASSWORD_RELEASE_LOCK
  IN  /\ product # None
      /\ PASSWORD_MANAGER_PRODUCTS[product].requiresCutoverEvidence =>
           /\ ev.source = "status_file"
           /\ ev.productId = product /\ product = release.productId
           /\ ev.upstream = release.upstream
           /\ ev.upstreamCommit = release.upstreamCommit
           /\ release.forkCommit # None /\ ev.forkCommit = release.forkCommit
           /\ release.imageDigest # None /\ ev.imageDigest = release.imageDigest
           /\ \A i \in 1..3 : ev.gates[i] = "passed"

(* A flag of the deployment is set or not; a lookup finds nothing, or a     *)
(* first address.                                                          *)
ASSUME PasswordsAssumption ==
  \A name \in DOMAIN Plans :
    /\ \A env \in Plans[name].environments : env.allowPrivate \in BOOLEAN
    /\ \A addresses \in Plans[name].lookups : addresses = <<>> \/ 1 \in DOMAIN addresses

-----------------------------------------------------------------------------
(* getPasswordManagerStatus.  What a page has seen by then: the evidence,  *)
(* the state it will show, whether the derived server counts as cut over,  *)
(* whether the vault can be opened from the page, and the address the      *)
(* server was asked at.                                                    *)

Seen(env, ev, ready, state, address) ==
  [product |-> allowedProduct(env.product), evidence |-> ev, state |-> state, cutoverReady |-> ready,
   opensVault |-> state \notin {"unconfigured", "invalid_config"} /\ isAllowedUrl(env.url, env.allowPrivate),
   allowPrivate |-> env.allowPrivate, address |-> address]

Show(t, ev, state, address) ==
  LET ready == cutoverEvidenceMatches(allowedProduct(req[t].arg.product), ev)
  IN  Goto(t, "showPasswords", <<>>, Seen(req[t].arg, ev, ready, state, address))

(* One page at a time: pages share nothing.                                *)
BeginPasswords(t) ==
  /\ Finished
  /\ \E env \in Plan.environments :
       Begin(t, "passwords", env, IF env.statusFile = "default" THEN "readStatusFile" ELSE "examineConfig", <<>>)

(* What follows from the configuration and the evidence alone.             *)
Examine(t, ev) ==
  LET env   == req[t].arg
      ready == cutoverEvidenceMatches(allowedProduct(env.product), ev)
  IN  CASE ~ValidConfig(env) -> Show(t, ev, "invalid_config", None)
        [] ValidConfig(env) /\ env.url = None -> Show(t, ev, "unconfigured", None)
        [] ValidConfig(env) /\ env.url # None /\ (~ready \/ HealthUrl(env) = None) -> Show(t, ev, "configured", None)
        [] OTHER -> Goto(t, "resolveHost", <<>>, ev)

ExamineConfig(t) ==
  /\ At(t, "examineConfig")
  /\ Examine(t, FromEnvironment(req[t].arg))
  /\ UNCHANGED <<plan, active>>

(* A file that cannot be read as it should be is not made up for by the    *)
(* environment.                                                            *)
ReadStatusFile(t) ==
  /\ At(t, "readStatusFile")
  /\ \E file \in Plan.statusFiles :
       IF Readable(file) THEN Examine(t, FromFile(file))
       ELSE Goto(t, "showPasswords", <<>>,
                 Seen(req[t].arg, FromEnvironment(req[t].arg), FALSE, "invalid_config", None))
  /\ UNCHANGED <<plan, active>>

(* All the addresses of the name are examined, and the first is kept.      *)
ResolveHost(t) ==
  /\ At(t, "resolveHost")
  /\ \E addresses \in Plan.lookups :
       IF addresses = <<>> \/ (~req[t].arg.allowPrivate /\ \E i \in DOMAIN addresses : ~isPublicIpAddress(addresses[i]))
       THEN Show(t, req[t].saw, "unavailable", None)
       ELSE Goto(t, "askServer", <<>>, [evidence |-> req[t].saw, address |-> addresses[1]])
  /\ UNCHANGED <<plan, active>>

(* The server answers with a 2xx or not, within 2.5 seconds or not.        *)
AskServer(t) ==
  /\ At(t, "askServer")
  /\ \E state \in {"available", "unavailable"} :
       Show(t, req[t].saw.evidence, state, req[t].saw.address)
  /\ UNCHANGED <<plan, active>>

LeavePasswords(t) ==
  /\ At(t, "showPasswords")
  /\ Done(t)
  /\ UNCHANGED <<plan, active>>

PasswordsStep(t) ==
  \/ BeginPasswords(t) \/ ReadStatusFile(t) \/ ExamineConfig(t)
  \/ ResolveHost(t) \/ AskServer(t) \/ LeavePasswords(t)
=============================================================================
