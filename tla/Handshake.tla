----------------------------- MODULE Handshake -----------------------------
(***************************************************************************)
(* How a session of the X Protocol starts on a new socket, start() and      *)
(* authenticate() of lib/DevAPI/Connection.js, and how it starts again on    *)
(* the same one, sessionReset() of lib/Protocol/Client.js.  Each is a chain  *)
(* of requests, one at a time, that goes one way or another with each reply; *)
(* what it learns about the server outlives it.  Where the sockets come from *)
(* is in Connection, and how a reply finds its request in XProtocolClient.   *)
(***************************************************************************)
EXTENDS Naturals, Sequences

CONSTANTS
    Servers,      \* what each server knows, and how the account can log in
    MaxAttempts   \* bound on the sockets

VARIABLES
    setup,        \* options: tls, local (a Unix socket), auth, attributes
    server,       \* external: the server at the other end
    link,         \* external: "plain", "tls" or "down"
    session,      \* external: the account is logged in
    auth,         \* state.auth
    capabilities, \* state.capabilities: the mechanisms the server names
    unknown,      \* session_connect_attrs is in state.unknownCapabilities
    reauth,       \* _requiresAuthenticationAfterReset
    authenticator,\* _authenticator
    asked,        \* the request that waits for its reply
    promise,      \* of the latest start() or sessionReset()
    attempts

stateVars == <<auth, capabilities, unknown>>
clientVars == <<reauth, authenticator>>
externalVars == <<server, link, session>>
handshakeVars ==
    <<setup, externalVars, stateVars, clientVars, asked, promise, attempts>>

Mechanisms == {"PLAIN", "MYSQL41", "SHA256_MEMORY"}

Setups ==
    [tls : BOOLEAN, local : BOOLEAN, attributes : BOOLEAN, auth : Mechanisms \cup {"none"}]

None == <<"none">>

\* What a server offers, and what it accepts for the account.
ASSUME ServersAssumption ==
    Servers \subseteq [tls : BOOLEAN, attributes : BOOLEAN, keepOpen : BOOLEAN,
                      mechanisms : SUBSET Mechanisms, accepts : SUBSET Mechanisms]

-----------------------------------------------------------------------------
(* What is asked for.                                                       *)

\* (what the server does not know is not all that is left out)
WantedMutant(without) ==
    <<"capabilitiesSet",
      [tls |-> setup.tls /\ ~setup.local /\ ~without,
       attributes |-> setup.attributes /\ ~without]>>

\* capabilitiesSet()
Wanted(without) ==
    <<"capabilitiesSet",
      [tls |-> setup.tls /\ ~setup.local, attributes |-> setup.attributes /\ ~without]>>

\* getAuth()
Mechanism ==
    IF auth # "none" THEN auth
    ELSE IF ~setup.local /\ ~setup.tls THEN "MYSQL41" ELSE "PLAIN"

\* allowsAuthenticationWith(): a server may support PLAIN without saying so.
Allows(mechanism) == mechanism \in capabilities \cup {"PLAIN"}

\* (the comparison of the codes is the other way round)
RetriesMutant(why) == setup.auth = "none" /\ Allows("SHA256_MEMORY") /\ why = "other"

\* allowsAuthenticationRetry(), and an error that is about the credentials.
Retries(why) ==
    /\ setup.auth = "none"
    /\ ~setup.local /\ ~setup.tls
    /\ Allows("SHA256_MEMORY")
    /\ why = "denied"

\* The server's part: a password is only read from a channel it trusts.
Accepts(mechanism) ==
    /\ mechanism \in server.accepts
    /\ mechanism = "PLAIN" => link = "tls" \/ setup.local

Authenticate(mechanism, try) ==
    /\ asked' = <<"authenticate", mechanism, try>>
    /\ authenticator' = mechanism

Settle(how) == promise' = how /\ asked' = None

-----------------------------------------------------------------------------
(* start(): on a socket that has just connected, with a client of its own.  *)

Begin(without) ==
    /\ link' = "plain" /\ session' = FALSE
    /\ reauth' = "MAYBE" /\ authenticator' = "none"
    /\ unknown' = without
    /\ asked' = Wanted(without)
    /\ promise' = "pending"

HandshakeInit ==
    /\ setup \in Setups
    /\ server \in Servers
    /\ link = "plain" /\ session = FALSE
    /\ auth = setup.auth /\ capabilities = {} /\ unknown = FALSE
    /\ reauth = "MAYBE" /\ authenticator = "none"
    /\ asked = Wanted(FALSE) /\ promise = "pending"
    /\ attempts = 1

Asked(request) == link # "down" /\ asked[1] = request

\* start() rejects: the socket is destroyed.
StartFails(why) == Settle(why) /\ link' = "down"

OnCapabilities ==
    /\ Asked("capabilitiesSet")
    /\ asked[2].tls => server.tls
    /\ asked[2].attributes => server.attributes
    /\ \/ ~asked[2].tls /\ UNCHANGED link
       \/ asked[2].tls /\ link' = "tls"        \* enableTLS()
    /\ asked' = <<"capabilitiesGet">>
    /\ UNCHANGED <<setup, server, session, stateVars, clientVars, promise, attempts>>

OnNoTLS ==
    /\ Asked("capabilitiesSet")
    /\ asked[2].tls /\ ~server.tls
    /\ StartFails("failed")
    /\ UNCHANGED <<setup, server, session, stateVars, clientVars, attempts>>

\* An old server: the same endpoint is connected to again, and asked for less.
OnUnknownAttributes ==
    /\ Asked("capabilitiesSet")
    /\ asked[2].attributes /\ ~server.attributes
    /\ Begin(TRUE)
    /\ UNCHANGED <<setup, server, auth, capabilities, attempts>>

OnCapabilitiesGet ==
    /\ Asked("capabilitiesGet")
    /\ capabilities' = server.mechanisms
    /\ asked' = <<"capabilitiesKnown">>
    /\ UNCHANGED <<setup, externalVars, auth, unknown, clientVars, promise, attempts>>

\* authenticate()
StartAuthentication ==
    /\ Asked("capabilitiesKnown")
    /\ IF Allows(Mechanism)
       THEN Authenticate(Mechanism, "first") /\ UNCHANGED <<promise, link>>
       ELSE StartFails("unsupported") /\ UNCHANGED authenticator
    /\ UNCHANGED <<setup, server, session, stateVars, reauth, attempts>>

Authenticating(tries) == Asked("authenticate") /\ asked[3] \in tries

\* authenticateWith() keeps the mechanism that worked; sessionReset() does not
\* choose another.
OnAuthenticated ==
    /\ Asked("authenticate") /\ Accepts(asked[2])
    /\ session' = TRUE
    /\ auth' = IF asked[3] = "again" THEN auth ELSE asked[2]
    /\ Settle("resolved")
    /\ UNCHANGED <<setup, server, link, capabilities, unknown, clientVars, attempts>>

\* A denial, or any other error of the server.  (The connector's own, for a
\* nonce of the wrong size, is in XProtocolClient.)
Refusals == {"other"} \cup (IF Accepts(asked[2]) THEN {} ELSE {"denied"})

OnFirstRefused ==
    /\ Authenticating({"first"})
    /\ \E why \in Refusals :
          IF Retries(why)
          THEN Authenticate("SHA256_MEMORY", "second") /\ UNCHANGED <<promise, link>>
          ELSE StartFails(why) /\ UNCHANGED authenticator
    /\ UNCHANGED <<setup, server, session, stateVars, reauth, attempts>>

OnSecondRefused ==
    /\ Authenticating({"second"})
    /\ \E why \in Refusals : StartFails(why)
    /\ UNCHANGED <<setup, server, session, stateVars, clientVars, attempts>>

OnStartFails ==
    /\ link # "down" /\ asked[1] \in {"capabilitiesSet", "capabilitiesGet"}
    /\ StartFails("failed")
    /\ UNCHANGED <<setup, server, session, stateVars, clientVars, attempts>>

-----------------------------------------------------------------------------
(* sessionReset(): the pool hands the connection out again.                 *)

\* The session stays open, or is closed and opened again.
Reset(is) == <<"reset", is>>

SessionReset ==
    /\ promise = "resolved" /\ link # "down"
    /\ promise' = "pending"
    /\ asked' = CASE reauth = "NO" -> Reset("kept")
                  [] reauth = "YES" -> Reset("closed")
                  [] reauth = "MAYBE" -> <<"expectOpen">>
    /\ UNCHANGED <<setup, externalVars, stateVars, clientVars, attempts>>

\* (every server is taken for a new one)
KnowsMutant == TRUE

\* The server knows the field that keeps the session open.
Knows == server.keepOpen

OnExpectOpen ==
    /\ Asked("expectOpen")
    /\ IF Knows THEN asked' = Reset("kept") /\ UNCHANGED reauth
       ELSE reauth' = "YES" /\ asked' = Reset("closed")
    /\ UNCHANGED <<setup, externalVars, stateVars, authenticator, promise, attempts>>

\* A server that does not know the field closes the session.
OnReset ==
    /\ Asked("reset")
    /\ session' = (asked[2] = "kept" /\ server.keepOpen)
    /\ IF asked[2] = "closed" THEN Authenticate(authenticator, "again") /\ UNCHANGED promise
       ELSE /\ UNCHANGED authenticator
            /\ IF reauth = "NO" THEN Settle("resolved")
               ELSE asked' = <<"expectClose">> /\ UNCHANGED promise
    /\ UNCHANGED <<setup, server, link, stateVars, reauth, attempts>>

Resetting ==
    \/ asked[1] \in {"expectOpen", "reset", "expectClose"}
    \/ asked[1] = "authenticate" /\ asked[3] = "again"

\* expectClose() sends another Expect.Open, without conditions.
OnExpectClose ==
    /\ Asked("expectClose")
    /\ reauth' = "NO"
    /\ Settle("resolved")
    /\ UNCHANGED <<setup, externalVars, stateVars, authenticator, attempts>>

\* The pool gives up the connection.
OnResetRefused ==
    /\ Resetting
    /\ \E why \in IF asked[1] = "authenticate" THEN Refusals ELSE {"failed"} : Settle(why)
    /\ UNCHANGED <<setup, externalVars, stateVars, clientVars, attempts>>

-----------------------------------------------------------------------------
(* The network and the server.                                              *)

\* What the end of the socket does to a request of sessionReset(): one that
\* asks what the server knows takes an error without a code for an answer, and
\* then waits for ever for the reply to the next.  After a network error
\* nothing rejects the request at all.
Interrupted ==
    \/ reauth = "MAYBE" /\ promise' = "hung" /\ reauth' \in {"MAYBE", "YES"}
    \/ reauth # "MAYBE" /\ promise' \in {"failed", "hung"} /\ UNCHANGED reauth

Lost ==
    /\ link # "down"
    /\ link' = "down" /\ session' = FALSE
    /\ asked' = None
    /\ IF Resetting THEN Interrupted ELSE UNCHANGED <<promise, reauth>>
    /\ UNCHANGED <<setup, server, stateVars, authenticator, attempts>>

\* The cache SHA256_MEMORY relies on is emptied.
Forget ==
    /\ promise = "resolved"
    /\ server' = [server EXCEPT !.accepts = @ \ {"SHA256_MEMORY"}]
    /\ UNCHANGED <<setup, link, session, stateVars, clientVars, asked, promise, attempts>>

Again(caps, without) ==
    /\ link = "down" /\ promise # "hung"
    /\ attempts < MaxAttempts
    /\ attempts' = attempts + 1
    /\ server' \in Servers
    /\ capabilities' = caps
    /\ Begin(without)
    /\ UNCHANGED <<setup, auth>>

\* Connection: the next endpoint, with what the last one did not know.
Failover == Again(capabilities, unknown)

\* Connection: open(), after reset().
Reopen == Again({}, FALSE)

HandshakeNext ==
    \/ OnCapabilities \/ OnNoTLS \/ OnUnknownAttributes \/ OnCapabilitiesGet
    \/ StartAuthentication \/ OnAuthenticated \/ OnFirstRefused \/ OnSecondRefused
    \/ OnStartFails
    \/ SessionReset \/ OnExpectOpen \/ OnReset \/ OnExpectClose \/ OnResetRefused
    \/ Lost \/ Forget \/ Failover \/ Reopen

HandshakeSpec == HandshakeInit /\ [][HandshakeNext]_handshakeVars

-----------------------------------------------------------------------------
(* Properties.                                                              *)

\* A session that was handed out is one the server is logged in for, however
\* often and on whichever server it was reset, and what was learnt about the
\* server is so.
SessionReady ==
    promise = "resolved" /\ link # "down" =>
        /\ session
        /\ reauth = "NO" => server.keepOpen
        /\ reauth = "YES" => ~server.keepOpen

\* A password is sent as it is over TLS or a local socket only, unless the
\* application chose so, whatever the server does not know or refuses.
PlainWhenSecure ==
    asked[1] = "authenticate" /\ asked[2] = "PLAIN" =>
        link = "tls" \/ setup.local \/ setup.auth = "PLAIN"

\* The mechanisms of the tutorial on secure sessions, when the server offers
\* them and the account can log in with them.
Promised ==
    IF setup.auth # "none" THEN {setup.auth}
    ELSE IF setup.tls \/ setup.local THEN {"PLAIN"} ELSE {"MYSQL41", "SHA256_MEMORY"}

Usable(mechanism) ==
    /\ Allows(mechanism) /\ mechanism \in server.accepts
    /\ mechanism = "PLAIN" => setup.tls \/ setup.local

\* An account that can log in with one of them is not denied, until one was
\* used: from then on that one is tried first.
NotDenied ==
    promise = "denied" /\ auth = setup.auth => \A m \in Promised : ~Usable(m)

\* The same for good, as the tutorial has it.
NeverDenied == promise = "denied" => \A m \in Promised : ~Usable(m)

\* sessionReset() always settles.
ResetSettles == promise # "hung"
=============================================================================
