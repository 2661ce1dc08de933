----------------------------- MODULE Admission -----------------------------
(***************************************************************************)
(* One TLS 1.3 connection between a client of the repository and the       *)
(* server: internal/security, with cmd/tlscheck on one side.  With TLS 1.3 *)
(* the client has finished its handshake, and has sent its request, before *)
(* the server has judged the client's certificate.                         *)
(***************************************************************************)
EXTENDS Naturals

VARIABLES
    setup,      \* who connects with what to which server (never changes)
    expired,    \* the client's certificate has expired
    client,         \* the client: start, loaded, hello, sent, over
    conn,       \* the server's side: idle, hello, open, refused
    presented,  \* the certificate the client has sent
    alert,      \* the alert the server has sent
    served,     \* a handler has run for the client's request
    broken,     \* a file, the network or the deadline has failed the client
    says      \* what the client says

admVars == <<setup, expired, client, conn, presented, alert, served, broken, says>>

-----------------------------------------------------------------------------
(* Certificates, authorities and URIs *)

CAs == {"ours", "other"}            \* "ours" is the client's CA file
DefaultClientURI == "operator"
URIs == {DefaultClientURI, "auditor"}
Certificates == [ca : CAs, usage : {"client", "server"}, uris : SUBSET URIs]
NoCertificate == [ca |-> "none", usage |-> "none", uris |-> {}]

(* The server's own certificate, its client CAs and its allowed URI. *)
Servers == [ca : CAs, name : {"localhost", "elsewhere"}, clientCA : CAs, allowed : URIs]

(* The flags and files of tlscheck; replicactl always sends its certificate. *)
Setups ==
    {s \in [tool : {"tlscheck", "replicactl"}, noCert : BOOLEAN,
            cert : Certificates, server : Servers] :
        s.noCert => s.tool = "tlscheck"}

(* Mutant of ProbeIdentityOK: the key usage is not checked. *)
ProbeIdentityAnyUsage ==
    LET leaf == setup.cert
    IN  /\ leaf.ca = "ours" /\ ~expired
        /\ leaf.uris # {} /\ (DefaultClientURI \in leaf.uris) = setup.noCert

(* ValidateProbeIdentity: apart from its URI the certificate is good. *)
ProbeIdentityOK ==
    LET leaf == setup.cert
    IN  /\ leaf.ca = "ours" /\ leaf.usage = "client" /\ ~expired
        /\ leaf.uris # {} /\ (DefaultClientURI \in leaf.uris) = setup.noCert

(* Mutant of VerifyConnection: every verified client is let in. *)
VerifyConnectionAny(leaf) == leaf # NoCertificate

(* The allowlist of the server: one of the leaf's URIs is the allowed one. *)
VerifyConnection(leaf) == leaf # NoCertificate /\ setup.server.allowed \in leaf.uris

(* Mutant of RejectionAlerts: any certificate alert counts. *)
RejectionAlertsAll == {"certificate required", "bad certificate", "access denied", "unknown CA", "expired"}

(* Mutant of RejectionAlerts: what an empty certificate is answered with is forgotten. *)
RejectionAlertsBad == {"bad certificate", "access denied"}

(* The alerts that CheckRejection takes for a refusal by policy. *)
RejectionAlerts == {"certificate required", "bad certificate", "access denied"}

(* RequireAndVerifyClientCert and then VerifyConnection, in this order,    *)
(* with the alert of each failure; "none" lets the client in.              *)
Verdict(leaf) ==
    CASE leaf = NoCertificate -> "certificate required"
      [] leaf # NoCertificate /\ leaf.ca # setup.server.clientCA -> "unknown CA"
      [] leaf.ca = setup.server.clientCA /\ expired -> "expired"
      [] leaf.ca = setup.server.clientCA /\ ~expired /\ leaf.usage # "client" -> "bad certificate"
      [] OTHER -> IF VerifyConnection(leaf) THEN "none" ELSE "bad certificate"

-----------------------------------------------------------------------------
(* The client *)

Ends(outcome) == client' = "over" /\ says' = outcome

(* security.Client, and for tlscheck ValidateProbeIdentity. *)
Loads ==
    /\ client = "start"
    /\ IF setup.tool = "tlscheck" /\ ~ProbeIdentityOK
       THEN Ends("failed")
       ELSE client' = "loaded" /\ UNCHANGED says
    /\ UNCHANGED <<setup, expired, conn, presented, alert, served, broken>>

Dials ==
    /\ client = "loaded"
    /\ client' = "hello" /\ conn' = "hello"
    /\ UNCHANGED <<setup, expired, presented, alert, served, broken, says>>

(* The client verifies the chain and the name of the server, answers with  *)
(* its certificate and sends its request.  Go's client leaves out a        *)
(* certificate whose issuer the server does not name.                      *)
Finishes ==
    /\ client = "hello"
    /\ IF setup.server.ca = "ours" /\ setup.server.name = "localhost"
       THEN /\ client' = "sent"
            /\ presented' \in (IF setup.noCert THEN {NoCertificate}
                               ELSE {setup.cert} \cup
                                    (IF setup.cert.ca # setup.server.clientCA THEN {NoCertificate} ELSE {}))
            /\ UNCHANGED says
       ELSE Ends("failed") /\ UNCHANGED presented
    /\ UNCHANGED <<setup, expired, conn, alert, served, broken>>

(* The client reads what the server has sent: CheckRejection for tlscheck. *)
Reads ==
    /\ client = "sent"
    /\ \/ served /\ Ends("accepted")
       \/ conn = "refused" /\ Ends(IF setup.tool = "tlscheck" /\ alert \in RejectionAlerts
                                   THEN "rejected" ELSE "failed")
    /\ UNCHANGED <<setup, expired, conn, presented, alert, served, broken>>

(* A file cannot be loaded, the connection cannot be made, it is reset     *)
(* (also after an alert nobody has read) or the five seconds are over.     *)
Breaks ==
    /\ client # "over"
    /\ broken' = TRUE
    /\ Ends("failed")
    /\ UNCHANGED <<setup, expired, conn, presented, alert, served>>

-----------------------------------------------------------------------------
(* The server, which goes on when the client has gone, and the clock *)

Verifies ==
    /\ conn = "hello" /\ (client = "sent" \/ presented # NoCertificate)
    /\ alert' = Verdict(presented)
    /\ conn' = IF alert' = "none" THEN "open" ELSE "refused"
    /\ UNCHANGED <<setup, expired, client, presented, served, broken, says>>

Serves ==
    /\ conn = "open" /\ ~served
    /\ served' = TRUE
    /\ UNCHANGED <<setup, expired, client, conn, presented, alert, broken, says>>

Expires ==
    /\ ~expired
    /\ expired' = TRUE
    /\ UNCHANGED <<setup, client, conn, presented, alert, served, broken, says>>

AdmInit ==
    /\ setup \in Setups
    /\ expired = FALSE
    /\ client = "start" /\ conn = "idle"
    /\ presented = NoCertificate
    /\ alert = "none" /\ served = FALSE /\ broken = FALSE /\ says = "none"

AdmNext == Loads \/ Dials \/ Finishes \/ Reads \/ Breaks \/ Verifies \/ Serves \/ Expires

AdmSpec == AdmInit /\ [][AdmNext]_admVars

-----------------------------------------------------------------------------
(* Every request that is served, even one that was on its way before the   *)
(* server had judged its sender, came with a client certificate of the     *)
(* server's own CA that carries the URI the server was started with.       *)
NoStrangerServed ==
    served => /\ presented.ca = setup.server.clientCA
              /\ presented.usage = "client"
              /\ setup.server.allowed \in presented.uris

(* CheckRejection "proves that a reachable server rejects a client         *)
(* certificate": when tlscheck succeeds the server has refused, and it has *)
(* refused for want of a certificate or because of the URI, not because    *)
(* the fixture was a bad certificate anyway.                               *)
RejectionIsPolicy ==
    says = "rejected" =>
        /\ conn = "refused" /\ ~served
        /\ \/ presented = NoCertificate
           \/ /\ presented.ca = setup.server.clientCA /\ presented.usage = "client"
              /\ setup.server.allowed \notin presented.uris

(* ... and with the fixtures that certgen makes, against the server that   *)
(* the lab starts, the check does not fail unless something has broken.    *)
LabPasses ==
    (/\ setup.tool = "tlscheck"
     /\ setup.server = [ca |-> "ours", name |-> "localhost", clientCA |-> "ours",
                        allowed |-> DefaultClientURI]
     /\ setup.cert = [ca |-> "ours", usage |-> "client",
                      uris |-> IF setup.noCert THEN {DefaultClientURI} ELSE {"auditor"}]
     /\ says \in {"failed", "accepted"})
    => broken \/ expired

(* The check fails no good server and passes no bad one. *)
VerdictIsRight == RejectionIsPolicy /\ LabPasses
=============================================================================
