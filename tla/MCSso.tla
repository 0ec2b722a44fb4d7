------------------------------- MODULE MCSso -------------------------------
(***************************************************************************)
(* The sign-on models and the socket server side by side: a behaviour      *)
(* picks one of them and stays with it, so the state counts add.           *)
(***************************************************************************)
EXTENDS OidcLogin, SsoTickets, SocketServer

VARIABLE part

ssoAllVars == <<part, loginVars, ssoVars, socketVars>>

(* The parts that do not move start in one state.                          *)
Init ==
    /\ part \in {"login", "tickets", "sockets"}
    /\ InitLogin /\ InitSso /\ InitSockets
    /\ part # "sockets" => variant = "Server" /\ unblocks

Next ==
    \/ part = "login" /\ NextLogin /\ UNCHANGED <<part, ssoVars, socketVars>>
    \/ part = "tickets" /\ NextSso /\ UNCHANGED <<part, loginVars, socketVars>>
    \/ part = "sockets" /\ NextSockets /\ UNCHANGED <<part, loginVars, ssoVars>>

(* Initially nothing in FairLogin and FairSockets is enabled, so the other *)
(* parts' behaviours satisfy them.                                         *)
Spec == Init /\ [][Next]_ssoAllVars /\ FairLogin /\ FairSockets

(* Continuations of the login form, taken from a map, refine the atomic    *)
(* one-time store, and sign-ins are sound; CAS tickets and SAML requests,  *)
(* consumed by a list call and an update, refine the store in which        *)
(* overlapping readers share a handle, and replays are refused.            *)
HandlesAreOneTime == SignInsAreSound /\ TicketsAreSound

(* A user who keeps trying leaves the login form with a code or the page   *)
(* that says it lapsed, and stop() of the socket server returns when       *)
(* anything wakes the accept loop.                                         *)
SignInsAndStopsEnd == SignInEnds /\ StopReturns
=============================================================================
