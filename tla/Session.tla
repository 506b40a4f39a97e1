------------------------------ MODULE Session ------------------------------
(***************************************************************************)
(* A freighter-client and the endpoints of freighter-server that look at    *)
(* its token: how the client finds out whether the registry requires auth,  *)
(* how it gets a token, loses answers and outlives restarts of the server,  *)
(* among the requests of other clients.  The authentication behind it is    *)
(* FsAuth, or the backend that says yes.  A client waits for each answer,   *)
(* and no handler awaits anything between its look at the configuration and *)
(* what it does to the owners, so that a call is one step; what is lost is  *)
(* the request, as if there had been none, or the answer.  A request that   *)
(* is served after the client gave it up is one of the others' requests.    *)
(***************************************************************************)
EXTENDS FsAuth, Framing

CONSTANTS NoClient,    \* the program that uses the client is not running
          NoToken,     \* no Authorization header
          WrongToken,  \* well formed, but nobody's
          Doc,         \* the metadata of a crate, as JSON
          Tarballs,    \* the contents of tarballs
          SizeLimit    \* crate_size_limit

ASSUME DocAssumption == /\ Doc \in [Crates -> Seq(Bytes)]
                        /\ IsInjective(Doc)
                        /\ \A c \in Crates : Fits(Len(Doc[c]))
ASSUME TarballsAssumption ==
  /\ Tarballs \subseteq Seq(Bytes)
  /\ \A b \in Tarballs : Fits(Len(b))
ASSUME SizeLimitAssumption == SizeLimit \in Nat
ASSUME TokenAssumption == {NoToken, WrongToken} \cap Tokens = {}

VARIABLES config,     \* the server's auth_required and allow_registration
          backend,    \* its AuthProvider: "fs" or "yes"
          client,     \* the Client: its token, auth_required, and is it made?
          tightened   \* history: auth is required only since the client exists
authVars == vars
sessionVars == <<authVars, config, backend, client, tightened>>

Configs == [auth_required : BOOLEAN, allow_registration : BOOLEAN]
Clients == [token : Tokens \cup {NoToken, WrongToken},
            auth_required : BOOLEAN, made : BOOLEAN]

ASSUME NoClientAssumption == NoClient \notin Clients

SessionTypeOK == /\ TypeOK
                 /\ config \in Configs
                 /\ backend \in {"fs", "yes"}
                 /\ client \in Clients \cup {NoClient}
                 /\ tightened \in BOOLEAN
                 /\ backend = "yes" => mem = NotLoaded /\ disk = NoOwners

SessionInit == /\ Init
               /\ config \in Configs
               /\ backend \in {"fs", "yes"}
               /\ client = NoClient
               /\ tightened = FALSE

\* What is done with a token before the owners are asked for.
Consulted(t) == backend = "fs" /\ t # NoToken

\* The status ensure_valid_token leads to.
TokenStatus(t) == CASE backend = "yes"                       -> "200"
                    [] backend = "fs" /\ ~Loadable           -> "500"
                    [] backend = "fs" /\ Loadable ->
                         IF t \in DOMAIN Loaded.token_owners THEN "200" ELSE "401"

\* config.json, the index, downloads, list and search: their answer as far as
\* the token goes.
Guarded(t) == CASE ~config.auth_required                 -> "200"
                [] config.auth_required /\ t = NoToken   -> "401"
                [] config.auth_required /\ t # NoToken   -> TokenStatus(t)

\* What they do on the way: the owners are loaded.
Checked(t) == IF config.auth_required /\ Consulted(t) /\ Loadable
              THEN Look ELSE UNCHANGED authVars

\* Mistake: the token goes along with publications only.
Attached_Never == NoToken

\* Reads carry the token if the client believes that auth is required.
Attached == IF client.auth_required THEN client.token ELSE NoToken

Reply(token, auth, made) ==
  client' = [token |-> token, auth_required |-> auth, made |-> made]

\* The user knows tokens that were handed out, and mistakes others for them.
Known == {g.token : g \in granted} \cup {NoToken, WrongToken}

\* from_reqwest: config.json is asked for without the token.  If it is needed
\* and there is none, the program panics.
FromReqwest(t) ==
  /\ client = NoClient
  /\ t \in Known
  /\ \/ Guarded(NoToken) = "200" /\ Reply(t, FALSE, TRUE)
     \/ Guarded(NoToken) = "401" /\ t # NoToken /\ Reply(t, TRUE, FALSE)
     \/ Guarded(NoToken) = "401" /\ t = NoToken /\ UNCHANGED client
  /\ UNCHANGED <<authVars, config, backend, tightened>>

\* The second request: any other status is an error, and no answer a panic.
FromReqwestAgain(lost) ==
  /\ client \in Clients /\ ~client.made
  /\ IF Guarded(client.token) = "200" /\ ~lost
     THEN /\ Reply(client.token, client.auth_required \/ config.auth_required, TRUE)
          /\ UNCHANGED tightened
     ELSE client' = NoClient /\ tightened' = FALSE
  /\ Checked(client.token)
  /\ UNCHANGED <<config, backend>>

\* fetch_index, download_crate and list; their answers change nothing.
ClientReads ==
  /\ client \in Clients /\ client.made
  /\ Checked(Attached)
  /\ UNCHANGED <<config, backend, client, tightened>>

\* The handler of publish, up to the index: too large, no token, truncated or
\* not JSON, or else the owners decide.
HandlePublish(t, body) ==
  LET took == Parse(body)
      docs == {c \in Crates : took.ok /\ Doc[c] = took.json}
  IN IF Len(body) > SizeLimit \/ ~Consulted(t) \/ docs = {} \/ ~Loadable
     THEN UNCHANGED authVars
     ELSE IF t \in DOMAIN Loaded.token_owners
          THEN \E c \in docs : Publish(t, c)
          ELSE Look

ClientPublishes(c, b) ==
  /\ client \in Clients /\ client.made
  /\ HandlePublish(client.token, Frame(Doc[c], b))
  /\ UNCHANGED <<config, backend, client, tightened>>

\* Mistake: the token is kept even if the server could not save it.
TokenFrom_Always(t, outcome, lost) == IF lost THEN client.token ELSE t

\* register puts the token of an answer with status 200 in place of its own.
TokenFrom(t, outcome, lost) ==
  IF outcome = "failed" \/ lost THEN client.token ELSE t

\* register; the token it sends along is not looked at.
ClientRegisters(u, t, outcome, lost) ==
  /\ client \in Clients /\ client.made
  /\ config.allow_registration
  /\ IF backend = "fs"
     THEN Register(u, t, outcome)
     ELSE outcome = "saved" /\ UNCHANGED authVars
  /\ client' = [client EXCEPT !.token = TokenFrom(t, outcome, lost)]
  /\ UNCHANGED <<config, backend, tightened>>

SetToken(t) ==
  /\ client \in Clients /\ client.made
  /\ t \in Known \ {NoToken}
  /\ client' = [client EXCEPT !.token = t]
  /\ UNCHANGED <<authVars, config, backend, tightened>>

\* The program that uses the client ends.
Exit == /\ client \in Clients
        /\ client' = NoClient /\ tightened' = FALSE
        /\ UNCHANGED <<authVars, config, backend>>

\* Requests of other clients, and late ones of this client.
OtherRequest ==
  /\ backend = "fs"
  /\ (config.allow_registration /\ Registration) \/ Requests
  /\ UNCHANGED <<config, backend, client, tightened>>

\* The server restarts, with what its configuration says now.
ServerRestart ==
  /\ Restart
  /\ config' \in Configs
  /\ tightened' = \/ tightened
                  \/ client \in Clients /\ config'.auth_required /\ ~config.auth_required
  /\ UNCHANGED <<backend, client>>

ClientCall ==
  \/ \E t \in Tokens \cup {NoToken, WrongToken} : FromReqwest(t) \/ SetToken(t)
  \/ \E lost \in BOOLEAN : FromReqwestAgain(lost)
  \/ ClientReads
  \/ \E c \in Crates, b \in Tarballs : ClientPublishes(c, b)
  \/ \E u \in Users, t \in Tokens, o \in Outcomes, lost \in BOOLEAN :
       ClientRegisters(u, t, o, lost)
  \/ Exit

SessionNext == ClientCall \/ OtherRequest \/ ServerRestart

SessionSpec == SessionInit /\ [][SessionNext]_sessionVars
-----------------------------------------------------------------------------
(***************************************************************************)
(* The server takes what a client framed for what the client meant, also    *)
(* when a length needs more than one byte: the two count the same bytes.    *)
(* Only an empty tarball is refused.                                        *)
(***************************************************************************)
AsSent ==
  client \in Clients =>
    \A c \in Crates, b \in Tarballs \ {<<>>} :
      LET took == Parse(Frame(Doc[c], b))
      IN took.ok /\ took.json = Doc[c] /\ took.tarball = b

(***************************************************************************)
(* A client that holds a token, from register or from its user, is not told *)
(* 401 by what it reads or publishes to, after lost answers, failing writes *)
(* and restarts, unless the user mistook it, or auth is required only since *)
(* the client was made and it does not know.                                *)
(***************************************************************************)
TokenServes ==
  (client \in Clients /\ client.made /\ client.token \in Tokens)
    => /\ TokenStatus(client.token) # "401"
       /\ (tightened => client.auth_required) => Guarded(Attached) # "401"
=============================================================================
