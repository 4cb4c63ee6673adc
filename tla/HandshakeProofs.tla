-------------------------- MODULE HandshakeProofs --------------------------
(***************************************************************************)
(* For any servers and accounts, and any number of sockets: a session that  *)
(* is handed out is logged in, a clear password goes over a safe channel,   *)
(* and an account that can log in is not denied until a mechanism was       *)
(* learnt.  Each part of the invariant is kept by every action because of   *)
(* itself and of the parts named in the lemma.                              *)
(***************************************************************************)
EXTENDS Handshake, TLAPS

Server ==
    [tls : BOOLEAN, attributes : BOOLEAN, keepOpen : BOOLEAN,
     mechanisms : SUBSET Mechanisms, accepts : SUBSET Mechanisms]

Types ==
    /\ setup \in Setups
    /\ server \in Server
    /\ link \in {"plain", "tls", "down"}
    /\ session \in BOOLEAN
    /\ auth \in Mechanisms \cup {"none"}
    /\ reauth \in {"NO", "YES", "MAYBE"}
    /\ promise \in {"pending", "resolved", "denied", "other", "unsupported", "failed", "hung"}

Is(request) == asked[1] = request

Trying(try) == Is("authenticate") /\ asked[3] = try

\* The request that is asked, and what it says of the variables next to it.
Requests ==
    /\ Is("none") \/ link # "down"
    /\ Is("none") \/ promise = "pending"
    /\ Is("capabilitiesSet") => asked[2].tls = (setup.tls /\ ~setup.local)
    /\ Is("authenticate") =>
          /\ asked[2] \in Mechanisms
          /\ asked[3] \in {"first", "second", "again"}
          /\ asked[2] = authenticator
    /\ Is("reset") => asked[2] \in {"kept", "closed"}
    /\ Trying("first") => asked[2] = Mechanism
    /\ Trying("second") =>
          /\ asked[2] = "SHA256_MEMORY"
          /\ setup.auth = "none" /\ ~setup.local /\ ~setup.tls
          /\ auth = "none" => "MYSQL41" \notin server.accepts

\* What is known of the server is so, and what is asked of it is what it knows.
Known ==
    link # "down" =>
        /\ reauth = "NO" => server.keepOpen
        /\ reauth = "YES" => ~server.keepOpen
        /\ Is("reset") /\ asked[2] = "kept" => server.keepOpen
        /\ Is("expectClose") => session /\ server.keepOpen
        /\ promise = "resolved" => session

\* The channel is the one that was asked for, from the second request on.
Channel ==
    /\ link = "tls" => setup.tls /\ ~setup.local
    /\ link = "plain" /\ setup.tls /\ ~setup.local =>
          Is("capabilitiesSet")

\* A mechanism that was learnt is one that start() would choose; the session
\* of this socket was opened with it.
Learnt ==
    /\ setup.auth # "none" => auth = setup.auth
    /\ setup.auth = "none" =>
          auth \in {"none"} \cup (IF setup.tls \/ setup.local THEN {"PLAIN"}
                                  ELSE {"MYSQL41", "SHA256_MEMORY"})
    /\ link # "down" /\ (promise = "resolved" \/ Resetting) =>
          auth = authenticator /\ auth # "none"

HandshakeInv == Types /\ Requests /\ Known /\ Channel /\ Learnt /\ NotDenied

-----------------------------------------------------------------------------

\* The connector starts with a request for the capabilities and nothing else.
LEMMA HandshakeStarts == HandshakeInit => HandshakeInv
<1> SUFFICES ASSUME HandshakeInit PROVE HandshakeInv
    OBVIOUS
<1> USE DEF HandshakeInit, Setups, Mechanisms
<1>1. Types
  BY ServersAssumption DEF Types, Server
<1>2. Requests
  BY DEF Requests, Is, Trying, Wanted
<1>3. Known
  BY DEF Known, Is, Wanted
<1>4. Channel
  BY DEF Channel, Is, Wanted
<1>5. Learnt
  BY DEF Learnt, Resetting, Wanted
<1>6. NotDenied
  BY DEF NotDenied
<1> QED BY <1>1, <1>2, <1>3, <1>4, <1>5, <1>6 DEF HandshakeInv

\* Every variable the other parts are about keeps its type.
LEMMA TypesKept ==
    Types /\ Requests /\ [HandshakeNext]_handshakeVars => Types'
<1> SUFFICES ASSUME Types /\ Requests, [HandshakeNext]_handshakeVars
             PROVE  Types'
    OBVIOUS
<1> USE DEF Types, Requests, Server, Setups, Mechanisms, Is, stateVars,
        clientVars, externalVars
<1>1. CASE OnCapabilities
  BY <1>1 DEF OnCapabilities, Asked
<1>2. CASE OnNoTLS
  BY <1>2 DEF OnNoTLS, Asked, StartFails, Settle, None
<1>3. CASE OnUnknownAttributes
  BY <1>3 DEF OnUnknownAttributes, Asked, Begin, Wanted
<1>4. CASE OnCapabilitiesGet
  BY <1>4 DEF OnCapabilitiesGet, Asked
<1>5. CASE StartAuthentication
  BY <1>5 DEF StartAuthentication, Asked, Authenticate, StartFails, Settle,
      None
<1>6. CASE OnAuthenticated
  BY <1>6 DEF OnAuthenticated, Asked, Settle, None
<1>7. CASE OnFirstRefused
  BY <1>7 DEF OnFirstRefused, Authenticating, Asked, Refusals, Authenticate,
      StartFails, Settle, None
<1>8. CASE OnSecondRefused
  BY <1>8 DEF OnSecondRefused, Authenticating, Asked, Refusals, StartFails,
      Settle, None
<1>9. CASE OnStartFails
  BY <1>9 DEF OnStartFails, StartFails, Settle, None
<1>10. CASE SessionReset
  BY <1>10 DEF SessionReset, Reset
<1>11. CASE OnExpectOpen
  <2>1. CASE server.keepOpen
    BY <1>11, <2>1 DEF OnExpectOpen, Asked, Knows, Reset
  <2>2. CASE ~server.keepOpen
    BY <1>11, <2>2 DEF OnExpectOpen, Asked, Knows, Reset
  <2> QED BY <2>1, <2>2
<1>12. CASE OnReset
  BY <1>12 DEF OnReset, Asked, Authenticate, Settle, None
<1>13. CASE OnExpectClose
  BY <1>13 DEF OnExpectClose, Asked, Settle, None
<1>14. CASE OnResetRefused
  BY <1>14 DEF OnResetRefused, Resetting, Refusals, Settle, None
<1>15. CASE Lost
  <2>1. promise' \in {promise, "failed", "hung"} /\ reauth' \in {reauth, "YES"}
    BY <1>15, SMTT(30) DEF Lost, Interrupted
  <2>2. session' \in BOOLEAN
    BY <1>15 DEF Lost
  <2> QED BY <1>15, <2>1, <2>2 DEF Lost
<1>16. CASE Forget
  BY <1>16 DEF Forget
<1>17. CASE Failover
  BY <1>17, ServersAssumption DEF Failover, Again, Begin, Wanted
<1>18. CASE Reopen
  BY <1>18, ServersAssumption DEF Reopen, Again, Begin, Wanted
<1>19. CASE UNCHANGED handshakeVars
  BY <1>19 DEF handshakeVars
<1> QED BY <1>1, <1>2, <1>3, <1>4, <1>5, <1>6, <1>7, <1>8, <1>9, <1>10, <1>11,
        <1>12, <1>13, <1>14, <1>15, <1>16, <1>17, <1>18, <1>19
        DEF HandshakeNext

\* The request that is asked agrees with the variables next to it, and no
\* socket that is gone has one.
LEMMA RequestsKept ==
    Types /\ Requests /\ Channel /\ Learnt /\ [HandshakeNext]_handshakeVars => Requests'
<1> SUFFICES ASSUME Types /\ Requests /\ Channel /\ Learnt, [HandshakeNext]_handshakeVars
             PROVE  Requests'
    OBVIOUS
<1> USE DEF Types, Requests, Learnt, Is, Trying, Mechanism, Mechanisms,
        Setups, stateVars, clientVars, externalVars
<1>1. CASE OnCapabilities
  BY <1>1 DEF OnCapabilities, Asked
<1>2. CASE OnNoTLS
  BY <1>2 DEF OnNoTLS, Asked, StartFails, Settle, None
<1>3. CASE OnUnknownAttributes
  BY <1>3 DEF OnUnknownAttributes, Asked, Begin, Wanted
<1>4. CASE OnCapabilitiesGet
  BY <1>4 DEF OnCapabilitiesGet, Asked
<1>5. CASE StartAuthentication
  BY <1>5 DEF StartAuthentication, Asked, Authenticate, StartFails, Settle,
      None
<1>6. CASE OnAuthenticated
  BY <1>6 DEF OnAuthenticated, Asked, Settle, None
<1>7. CASE OnFirstRefused
  BY <1>7 DEF OnFirstRefused, Authenticating, Asked, Refusals, Authenticate,
      StartFails, Settle, None, Accepts, Retries
<1>8. CASE OnSecondRefused
  BY <1>8 DEF OnSecondRefused, Authenticating, Asked, Refusals, StartFails,
      Settle, None
<1>9. CASE OnStartFails
  BY <1>9 DEF OnStartFails, StartFails, Settle, None
<1>10. CASE SessionReset
  BY <1>10 DEF SessionReset, Reset
<1>11. CASE OnExpectOpen
  <2>1. CASE server.keepOpen
    BY <1>11, <2>1 DEF OnExpectOpen, Asked, Knows, Reset
  <2>2. CASE ~server.keepOpen
    BY <1>11, <2>2 DEF OnExpectOpen, Asked, Knows, Reset
  <2> QED BY <2>1, <2>2
<1>12. CASE OnReset
  BY <1>12 DEF OnReset, Asked, Authenticate, Settle, None, Resetting
<1>13. CASE OnExpectClose
  BY <1>13 DEF OnExpectClose, Asked, Settle, None
<1>14. CASE OnResetRefused
  BY <1>14 DEF OnResetRefused, Resetting, Refusals, Settle, None
<1>15. CASE Lost
  BY <1>15 DEF Lost, Interrupted, None
<1>16. CASE Forget
  BY <1>16 DEF Forget, Server
<1>17. CASE Failover
  BY <1>17 DEF Failover, Again, Begin, Wanted
<1>18. CASE Reopen
  BY <1>18 DEF Reopen, Again, Begin, Wanted
<1>19. CASE UNCHANGED handshakeVars
  BY <1>19 DEF handshakeVars
<1> QED BY <1>1, <1>2, <1>3, <1>4, <1>5, <1>6, <1>7, <1>8, <1>9, <1>10, <1>11,
        <1>12, <1>13, <1>14, <1>15, <1>16, <1>17, <1>18, <1>19
        DEF HandshakeNext

\* No step asks for what the server does not know: what a reset concluded is so
\* as long as the socket is the same.
LEMMA KnownKept ==
    Types /\ Requests /\ Known /\ [HandshakeNext]_handshakeVars => Known'
<1> SUFFICES ASSUME Types /\ Requests /\ Known, [HandshakeNext]_handshakeVars
             PROVE  Known'
    OBVIOUS
<1> USE DEF Types, Requests, Known, Is, Server, stateVars, clientVars,
        externalVars
<1>1. CASE OnCapabilities
  BY <1>1 DEF OnCapabilities, Asked
<1>2. CASE OnNoTLS
  BY <1>2 DEF OnNoTLS, Asked, StartFails, Settle, None
<1>3. CASE OnUnknownAttributes
  BY <1>3 DEF OnUnknownAttributes, Asked, Begin, Wanted
<1>4. CASE OnCapabilitiesGet
  BY <1>4 DEF OnCapabilitiesGet, Asked
<1>5. CASE StartAuthentication
  BY <1>5 DEF StartAuthentication, Asked, Authenticate, StartFails, Settle,
      None
<1>6. CASE OnAuthenticated
  BY <1>6 DEF OnAuthenticated, Asked, Settle, None
<1>7. CASE OnFirstRefused
  BY <1>7 DEF OnFirstRefused, Authenticating, Asked, Refusals, Authenticate,
      StartFails, Settle, None
<1>8. CASE OnSecondRefused
  BY <1>8 DEF OnSecondRefused, Authenticating, Asked, Refusals, StartFails,
      Settle, None
<1>9. CASE OnStartFails
  BY <1>9 DEF OnStartFails, StartFails, Settle, None
<1>10. CASE SessionReset
  BY <1>10 DEF SessionReset, Reset
<1>11. CASE OnExpectOpen
  <2>1. CASE server.keepOpen
    BY <1>11, <2>1 DEF OnExpectOpen, Asked, Knows, Reset
  <2>2. CASE ~server.keepOpen
    BY <1>11, <2>2 DEF OnExpectOpen, Asked, Knows, Reset
  <2> QED BY <2>1, <2>2
<1>12. CASE OnReset
  <2>1. CASE asked[2] = "kept"
    BY <1>12, <2>1 DEF OnReset, Asked, Authenticate, Settle, None
  <2>2. CASE ~(asked[2] = "kept")
    BY <1>12, <2>2 DEF OnReset, Asked, Authenticate, Settle, None
  <2> QED BY <2>1, <2>2
<1>13. CASE OnExpectClose
  BY <1>13 DEF OnExpectClose, Asked, Settle, None
<1>14. CASE OnResetRefused
  BY <1>14 DEF OnResetRefused, Resetting, Refusals, Settle, None
<1>15. CASE Lost
  BY <1>15 DEF Lost, Interrupted, None
<1>16. CASE Forget
  BY <1>16 DEF Forget
<1>17. CASE Failover
  BY <1>17 DEF Failover, Again, Begin, Wanted
<1>18. CASE Reopen
  BY <1>18 DEF Reopen, Again, Begin, Wanted
<1>19. CASE UNCHANGED handshakeVars
  BY <1>19 DEF handshakeVars
<1> QED BY <1>1, <1>2, <1>3, <1>4, <1>5, <1>6, <1>7, <1>8, <1>9, <1>10, <1>11,
        <1>12, <1>13, <1>14, <1>15, <1>16, <1>17, <1>18, <1>19
        DEF HandshakeNext

\* No step uses the channel before it is the one that was asked for.
LEMMA ChannelKept ==
    Types /\ Requests /\ Channel /\ [HandshakeNext]_handshakeVars => Channel'
<1> SUFFICES ASSUME Types /\ Requests /\ Channel, [HandshakeNext]_handshakeVars
             PROVE  Channel'
    OBVIOUS
<1> USE DEF Types, Requests, Channel, Is, Trying, Setups, stateVars,
        clientVars, externalVars
<1>1. CASE OnCapabilities
  BY <1>1 DEF OnCapabilities, Asked
<1>2. CASE OnNoTLS
  BY <1>2 DEF OnNoTLS, Asked, StartFails, Settle, None
<1>3. CASE OnUnknownAttributes
  BY <1>3 DEF OnUnknownAttributes, Asked, Begin, Wanted
<1>4. CASE OnCapabilitiesGet
  BY <1>4 DEF OnCapabilitiesGet, Asked
<1>5. CASE StartAuthentication
  BY <1>5 DEF StartAuthentication, Asked, Authenticate, StartFails, Settle,
      None
<1>6. CASE OnAuthenticated
  BY <1>6 DEF OnAuthenticated, Asked, Settle, None, Server
<1>7. CASE OnFirstRefused
  BY <1>7 DEF OnFirstRefused, Authenticating, Asked, Refusals, Authenticate,
      StartFails, Settle, None
<1>8. CASE OnSecondRefused
  BY <1>8 DEF OnSecondRefused, Authenticating, Asked, Refusals, StartFails,
      Settle, None
<1>9. CASE OnStartFails
  BY <1>9 DEF OnStartFails, StartFails, Settle, None
<1>10. CASE SessionReset
  BY <1>10 DEF SessionReset, Reset
<1>11. CASE OnExpectOpen
  <2>1. CASE server.keepOpen
    BY <1>11, <2>1 DEF OnExpectOpen, Asked, Knows, Reset
  <2>2. CASE ~server.keepOpen
    BY <1>11, <2>2 DEF OnExpectOpen, Asked, Knows, Reset
  <2> QED BY <2>1, <2>2
<1>12. CASE OnReset
  BY <1>12 DEF OnReset, Asked, Authenticate, Settle, None
<1>13. CASE OnExpectClose
  BY <1>13 DEF OnExpectClose, Asked, Settle, None
<1>14. CASE OnResetRefused
  BY <1>14 DEF OnResetRefused, Resetting, Refusals, Settle, None
<1>15. CASE Lost
  BY <1>15 DEF Lost, Interrupted, None
<1>16. CASE Forget
  BY <1>16 DEF Forget
<1>17. CASE Failover
  BY <1>17 DEF Failover, Again, Begin, Wanted
<1>18. CASE Reopen
  BY <1>18 DEF Reopen, Again, Begin, Wanted
<1>19. CASE UNCHANGED handshakeVars
  BY <1>19 DEF handshakeVars
<1> QED BY <1>1, <1>2, <1>3, <1>4, <1>5, <1>6, <1>7, <1>8, <1>9, <1>10, <1>11,
        <1>12, <1>13, <1>14, <1>15, <1>16, <1>17, <1>18, <1>19
        DEF HandshakeNext

\* No step learns a mechanism that start() would not choose.
LEMMA LearntKept ==
    Types /\ Requests /\ Channel /\ Learnt /\ [HandshakeNext]_handshakeVars => Learnt'
<1> SUFFICES ASSUME Types /\ Requests /\ Channel /\ Learnt, [HandshakeNext]_handshakeVars
             PROVE  Learnt'
    OBVIOUS
<1> USE DEF Types, Requests, Channel, Learnt, Is, Trying, Setups, Mechanisms,
        Mechanism, Resetting, stateVars, clientVars, externalVars
<1>1. CASE OnCapabilities
  BY <1>1 DEF OnCapabilities, Asked
<1>2. CASE OnNoTLS
  BY <1>2 DEF OnNoTLS, Asked, StartFails, Settle, None
<1>3. CASE OnUnknownAttributes
  BY <1>3 DEF OnUnknownAttributes, Asked, Begin, Wanted
<1>4. CASE OnCapabilitiesGet
  BY <1>4 DEF OnCapabilitiesGet, Asked
<1>5. CASE StartAuthentication
  BY <1>5 DEF StartAuthentication, Asked, Authenticate, StartFails, Settle,
      None
<1>6. CASE OnAuthenticated
  BY <1>6 DEF OnAuthenticated, Asked, Settle, None, Accepts
<1>7. CASE OnFirstRefused
  BY <1>7 DEF OnFirstRefused, Authenticating, Asked, Refusals, Authenticate,
      StartFails, Settle, None
<1>8. CASE OnSecondRefused
  BY <1>8 DEF OnSecondRefused, Authenticating, Asked, Refusals, StartFails,
      Settle, None
<1>9. CASE OnStartFails
  BY <1>9 DEF OnStartFails, StartFails, Settle, None
<1>10. CASE SessionReset
  BY <1>10 DEF SessionReset, Reset
<1>11. CASE OnExpectOpen
  <2>1. CASE server.keepOpen
    BY <1>11, <2>1 DEF OnExpectOpen, Asked, Knows, Reset
  <2>2. CASE ~server.keepOpen
    BY <1>11, <2>2 DEF OnExpectOpen, Asked, Knows, Reset
  <2> QED BY <2>1, <2>2
<1>12. CASE OnReset
  BY <1>12 DEF OnReset, Asked, Authenticate, Settle, None
<1>13. CASE OnExpectClose
  BY <1>13 DEF OnExpectClose, Asked, Settle, None
<1>14. CASE OnResetRefused
  BY <1>14 DEF OnResetRefused, Refusals, Settle, None
<1>15. CASE Lost
  BY <1>15 DEF Lost, Interrupted, None
<1>16. CASE Forget
  BY <1>16 DEF Forget
<1>17. CASE Failover
  BY <1>17 DEF Failover, Again, Begin, Wanted
<1>18. CASE Reopen
  BY <1>18 DEF Reopen, Again, Begin, Wanted
<1>19. CASE UNCHANGED handshakeVars
  BY <1>19 DEF handshakeVars
<1> QED BY <1>1, <1>2, <1>3, <1>4, <1>5, <1>6, <1>7, <1>8, <1>9, <1>10, <1>11,
        <1>12, <1>13, <1>14, <1>15, <1>16, <1>17, <1>18, <1>19
        DEF HandshakeNext

\* No step denies an account that can log in with what start() may try.
LEMMA NotDeniedKept ==
    HandshakeInv /\ [HandshakeNext]_handshakeVars => NotDenied'
<1> SUFFICES ASSUME HandshakeInv, [HandshakeNext]_handshakeVars
             PROVE  NotDenied'
    OBVIOUS
<1> USE DEF HandshakeInv, Types, Requests, Channel, Learnt, NotDenied, Is,
        Trying, Setups, Mechanisms, Mechanism, Resetting, Promised, Usable,
        Allows, stateVars, clientVars, externalVars
<1>1. CASE OnCapabilities
  BY <1>1 DEF OnCapabilities, Asked
<1>2. CASE OnNoTLS
  BY <1>2 DEF OnNoTLS, Asked, StartFails, Settle, None
<1>3. CASE OnUnknownAttributes
  BY <1>3 DEF OnUnknownAttributes, Asked, Begin, Wanted
<1>4. CASE OnCapabilitiesGet
  BY <1>4 DEF OnCapabilitiesGet, Asked
<1>5. CASE StartAuthentication
  BY <1>5 DEF StartAuthentication, Asked, Authenticate, StartFails, Settle,
      None
<1>6. CASE OnAuthenticated
  BY <1>6 DEF OnAuthenticated, Asked, Settle, None
<1>7. CASE OnFirstRefused
  BY <1>7 DEF OnFirstRefused, Authenticating, Asked, Refusals, Authenticate,
      StartFails, Settle, None, Accepts, Retries
<1>8. CASE OnSecondRefused
  BY <1>8 DEF OnSecondRefused, Authenticating, Asked, Refusals, StartFails,
      Settle, None, Accepts
<1>9. CASE OnStartFails
  BY <1>9 DEF OnStartFails, StartFails, Settle, None
<1>10. CASE SessionReset
  BY <1>10 DEF SessionReset, Reset
<1>11. CASE OnExpectOpen
  <2>1. CASE server.keepOpen
    BY <1>11, <2>1 DEF OnExpectOpen, Asked, Knows, Reset
  <2>2. CASE ~server.keepOpen
    BY <1>11, <2>2 DEF OnExpectOpen, Asked, Knows, Reset
  <2> QED BY <2>1, <2>2
<1>12. CASE OnReset
  BY <1>12 DEF OnReset, Asked, Authenticate, Settle, None
<1>13. CASE OnExpectClose
  BY <1>13 DEF OnExpectClose, Asked, Settle, None
<1>14. CASE OnResetRefused
  BY <1>14 DEF OnResetRefused, Refusals, Settle, None, Accepts
<1>15. CASE Lost
  BY <1>15 DEF Lost, Interrupted, None
<1>16. CASE Forget
  BY <1>16 DEF Forget
<1>17. CASE Failover
  BY <1>17 DEF Failover, Again, Begin, Wanted
<1>18. CASE Reopen
  BY <1>18 DEF Reopen, Again, Begin, Wanted
<1>19. CASE UNCHANGED handshakeVars
  BY <1>19 DEF handshakeVars
<1> QED BY <1>1, <1>2, <1>3, <1>4, <1>5, <1>6, <1>7, <1>8, <1>9, <1>10, <1>11,
        <1>12, <1>13, <1>14, <1>15, <1>16, <1>17, <1>18, <1>19
        DEF HandshakeNext

-----------------------------------------------------------------------------

\* The six parts together hold in every reachable state.
LEMMA Invariance == HandshakeSpec => []HandshakeInv
<1>1. HandshakeInv /\ [HandshakeNext]_handshakeVars => HandshakeInv'
  BY TypesKept, RequestsKept, KnownKept, ChannelKept, LearntKept, NotDeniedKept
  DEF HandshakeInv
<1> QED BY HandshakeStarts, <1>1, PTL DEF HandshakeSpec

\* A session that was handed out is one the server is logged in for, however
\* often and on whichever server it was reset, and what was learnt about the
\* server is so (sessionReset() with its fall-back to a second authentication).
THEOREM Ready == HandshakeSpec => []SessionReady
<1>1. HandshakeInv => SessionReady
  BY DEF HandshakeInv, Known, SessionReady
<1> QED BY Invariance, <1>1, PTL

\* A password is sent as it is over TLS or a local socket only, unless the
\* application chose so (getAuth() with what authenticateWith() keeps).
THEOREM Secure == HandshakeSpec => []PlainWhenSecure
<1>1. HandshakeInv => PlainWhenSecure
  BY DEF HandshakeInv, Types, Setups, Mechanisms, Requests, Channel, Learnt, Is, Trying,
         Mechanism, Resetting, PlainWhenSecure
<1> QED BY Invariance, <1>1, PTL

\* An account that can log in with a mechanism of the documentation is not
\* denied, until one was used (authenticate() with its second attempt).
THEOREM Admitted == HandshakeSpec => []NotDenied
<1>1. HandshakeInv => NotDenied
  BY DEF HandshakeInv
<1> QED BY Invariance, <1>1, PTL
=============================================================================
