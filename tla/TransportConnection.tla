------------------------ MODULE TransportConnection -------------------------
(***************************************************************************)
(* The connection state WhatsAppWebTransport derives from the events of    *)
(* its whatsapp-web.js client, and what it reports of it.                  *)
(*                                                                         *)
(* Two handlers end after their event: a QR code is turned into an image   *)
(* (milliseconds), and "ready" is believed after five seconds.  A QR code  *)
(* is its number, 0 the absence of one (null).  Actions that call          *)
(* _setState, and so emit 'state', are the disjuncts of StateEvent.        *)
(***************************************************************************)
EXTENDS Naturals

CONSTANT MaxCodes   \* bound: QR codes the client shows

ASSUME TransportConnectionAssumption == MaxCodes \in Nat

VARIABLES
    client,     \* the client itself, as its events tell
    codes,      \* how many QR codes it has shown
    encoding,   \* the code whose toDataURL has not resolved, or 0
    timers,     \* pending five-second timers, each named by codes when set
    conn,       \* this.connectionState
    qr          \* this.lastQrDataUrl

transportVars == <<client, codes, encoding, timers, conn, qr>>

TransportInit ==
    /\ client = "starting"
    /\ codes = 0
    /\ encoding = 0
    /\ timers = {}
    /\ conn = "initializing"
    /\ qr = 0

SetState(s, q) == conn' = s /\ qr' = q

-----------------------------------------------------------------------------
\* 'qr': the handler awaits toDataURL.  The client shows codes at least
\* twenty seconds apart, the first ones or new ones after a logout.
ShowCode ==
    /\ client \in {"starting", "unpaired", "gone"}
    /\ codes < MaxCodes
    /\ encoding = 0
    /\ client' = "unpaired"
    /\ codes' = codes + 1
    /\ encoding' = codes + 1
    /\ UNCHANGED <<timers, conn, qr>>

CodeEncoded ==
    /\ encoding # 0
    /\ encoding' = 0
    /\ SetState("qr", encoding)
    /\ UNCHANGED <<client, codes, timers>>

\* Mutant of Authenticated: the scanned code stays.
AuthenticatedKeepingCode ==
    /\ client \in {"starting", "unpaired"}
    /\ client' = "paired"
    /\ SetState("authenticated", qr)
    /\ UNCHANGED <<codes, encoding, timers>>

Authenticated ==
    /\ client \in {"starting", "unpaired"}
    /\ client' = "paired"
    /\ SetState("authenticated", 0)
    /\ UNCHANGED <<codes, encoding, timers>>

\* 'ready': a timer is set and nothing else happens yet.
BecomeLive ==
    /\ client = "paired"
    /\ client' = "live"
    /\ timers' = timers \cup {codes}
    /\ UNCHANGED <<codes, encoding, conn, qr>>

\* Mutant of ReadyTimer: it takes effect on an authenticated client only.
ReadyTimerIfAuthenticated(t) ==
    /\ t \in timers
    /\ encoding = 0 \/ encoding > t
    /\ timers' = timers \ {t}
    /\ IF conn = "authenticated" THEN SetState("ready", 0) ELSE SetState(conn, qr)
    /\ UNCHANGED <<client, codes, encoding>>

\* Its five seconds are over, long after the encoding of an earlier code.
\* Nothing cancels the timer.
ReadyTimer(t) ==
    /\ t \in timers
    /\ encoding = 0 \/ encoding > t
    /\ timers' = timers \ {t}
    /\ SetState("ready", 0)
    /\ UNCHANGED <<client, codes, encoding>>

AuthFailure ==
    /\ client = "starting"
    /\ client' = "gone"
    /\ SetState("disconnected", qr)
    /\ UNCHANGED <<codes, encoding, timers>>

Disconnected ==
    /\ client \in {"paired", "live"}
    /\ client' = "gone"
    /\ SetState("disconnected", qr)
    /\ UNCHANGED <<codes, encoding, timers>>

\* Mutant of LoadingScreen: progress is a state of its own.
LoadingScreenAsState ==
    /\ client \in {"starting", "paired"}
    /\ SetState("loading", qr)
    /\ UNCHANGED <<client, codes, encoding, timers>>

\* 'loading_screen' reports progress under the present state.
LoadingScreen ==
    /\ client \in {"starting", "paired"}
    /\ SetState(conn, qr)
    /\ UNCHANGED <<client, codes, encoding, timers>>

StateEvent == \/ CodeEncoded \/ Authenticated \/ (\E t \in timers : ReadyTimer(t))
              \/ AuthFailure \/ Disconnected \/ LoadingScreen
Silent == ShowCode \/ BecomeLive

TransportNext == StateEvent \/ Silent
TransportSpec == TransportInit /\ [][TransportNext]_transportVars

-----------------------------------------------------------------------------
(* Properties.                                                             *)

TransportTypeOK ==
    /\ client \in {"starting", "unpaired", "paired", "live", "gone"}
    /\ codes \in 0..MaxCodes
    /\ encoding \in 0..MaxCodes
    /\ timers \in SUBSET (0..MaxCodes)
    /\ conn \in {"initializing", "qr", "authenticated", "ready", "disconnected"}
    /\ qr \in 0..MaxCodes

\* A page told "qr" gets an image to show, and no code that was used up is
\* left for a page told "authenticated" or "ready": whatever the order in
\* which encodings, timers and events of the client come.
CodeGoesWithState ==
    /\ conn = "qr" => qr # 0
    /\ qr # 0 => conn \in {"qr", "disconnected"}
=============================================================================
