---------------------------- MODULE MockTransport ----------------------------
(***************************************************************************)
(* The stand-in MockTransport, which createTransport() takes unless the    *)
(* mode is "real": three timers, set by initialize(), play the connection  *)
(* through once.  Only shutdown() and disconnect(), which no route calls,  *)
(* clear them.  Its variables are those of TransportConnection, of which   *)
(* it also has the handler that ends when toDataURL has resolved.          *)
(***************************************************************************)
EXTENDS TransportConnection

MockClients == {"mock", "mockUnpaired", "mockPaired", "mockLive"}

MockInit ==
    /\ client = "mock"
    /\ codes = 0 /\ encoding = 0 /\ qr = 0
    /\ timers = {}
    /\ conn = "initializing"

\* After 150 ms: the handler awaits toDataURL.
MockShowCode ==
    /\ client = "mock" /\ codes < MaxCodes
    /\ client' = "mockUnpaired"
    /\ codes' = codes + 1
    /\ encoding' = codes + 1
    /\ UNCHANGED <<timers, conn, qr>>

\* After 400 ms, long after the encoding that began 250 ms ago.
MockAuthenticated ==
    /\ client = "mockUnpaired" /\ encoding = 0
    /\ client' = "mockPaired"
    /\ SetState("authenticated", 0)
    /\ UNCHANGED <<codes, encoding, timers>>

\* After 700 ms.
MockReady ==
    /\ client = "mockPaired"
    /\ client' = "mockLive"
    /\ SetState("ready", qr)
    /\ UNCHANGED <<codes, encoding, timers>>

MockStateEvent == CodeEncoded \/ MockAuthenticated \/ MockReady
MockNext == MockStateEvent \/ MockShowCode
MockSpec == MockInit /\ [][MockNext]_transportVars

MockTypeOK ==
    /\ client \in MockClients
    /\ codes \in 0..MaxCodes
    /\ encoding \in 0..MaxCodes
    /\ timers = {}
    /\ conn \in {"initializing", "qr", "authenticated", "ready"}
    /\ qr \in 0..MaxCodes
=============================================================================
